---- MODULE Spec2Model ----
(***************************************************************************)
(* A model of the OlaVM execution core: Process::execute of                *)
(* src/executor/src/lib.rs with its trace post-processing.                 *)
(*                                                                         *)
(* TLC integers are 32 bits wide, so the Goldilocks field                  *)
(* p = 2^64 - 2^32 + 1 is modelled by the prime of the same shape          *)
(* p = 2^(2h) - 2^h + 1 over words of 2h bits, h = HalfBits:               *)
(* u64 becomes 2h bits, u32 becomes h bits.  Every constant of the source  *)
(* is written as the source writes it, over h instead of 32.               *)
(***************************************************************************)
EXTENDS Integers, Sequences, FiniteSets, TLC

\* ------------------------------------------------------------------ bounds
HalfBits == 4
MaxProgLen == 2
MaxClk == 72

\* ------------------------------------------------------- words and the field
RECURSIVE Pow2(_)
Pow2(n) == IF n = 0 THEN 1 ELSE 2 * Pow2(n - 1)

U64 == Pow2(2 * HalfBits)
U32_MAX == Pow2(HalfBits) - 1
ORDER == U64 - Pow2(HalfBits) + 1
NEG_ONE == ORDER - 1

RECURSIVE BitOp(_, _, _, _)
BitOp(f, a, b, n) ==
  IF n = 0 THEN 0
  ELSE LET x == a % 2
           y == b % 2
           bit == CASE f = "and" -> IF x = 1 /\ y = 1 THEN 1 ELSE 0
                    [] f = "or"  -> IF x = 1 \/ y = 1 THEN 1 ELSE 0
                    [] OTHER     -> IF x # y THEN 1 ELSE 0
       IN bit + 2 * BitOp(f, a \div 2, b \div 2, n - 1)

BitAnd(a, b) == BitOp("and", a, b, 2 * HalfBits)
BitOr(a, b) == BitOp("or", a, b, 2 * HalfBits)
BitXor(a, b) == BitOp("xor", a, b, 2 * HalfBits)

\* GoldilocksField: canonical addition, subtraction, multiplication, inverse.
to_canonical_u64(x) == x % ORDER
F_add(a, b) == (a + b) % ORDER
F_sub(a, b) == ((a % ORDER) + ORDER - (b % ORDER)) % ORDER
F_mul(a, b) == ((a % ORDER) * (b % ORDER)) % ORDER
RECURSIVE F_pow(_, _)
F_pow(a, n) ==
  IF n = 0 THEN 1
  ELSE IF n % 2 = 0 THEN LET r == F_pow(a, n \div 2) IN F_mul(r, r)
  ELSE F_mul(a, F_pow(a, n - 1))
F_inverse(a) == F_pow(a, ORDER - 2)

\* u64 subtraction: an overflow panics when the build checks overflow and
\* wraps otherwise.
U64Sub(a, b, checks) ==
  IF a >= b THEN [ok |-> TRUE, v |-> a - b]
  ELSE IF checks THEN [ok |-> FALSE, v |-> 0]
  ELSE [ok |-> TRUE, v |-> a - b + U64]

\* -------------------------------------------------------- program constants
REGISTER_NUM == 10
FP_REG_INDEX == 9
REG_NOT_USED == 255
IMM_INSTRUCTION_LEN == 2
REGION_SPAN == BitXor(2, HalfBits - 1)
MEM_SPAN_SIZE == U32_MAX
PSP_START_ADDR == ORDER - MEM_SPAN_SIZE
POSEIDON_START_ADDR == ORDER - 2 * MEM_SPAN_SIZE
ECDSA_START_ADDR == ORDER - 3 * MEM_SPAN_SIZE
HP_START_ADDR == ORDER - 3 * MEM_SPAN_SIZE
PROPHET_INPUT_REG_LEN == 3
PROPHET_INPUT_REG_START_INDEX == 1
PROPHET_INPUT_REG_END_INDEX == PROPHET_INPUT_REG_START_INDEX + PROPHET_INPUT_REG_LEN
PROPHET_INPUT_FP_START_OFFSET == 3
TREE_VALUE_LEN == 4
POSEIDON_INPUT_VALUE_LEN == 8
POSEIDON_OUTPUT_VALUE_LEN == 4

\* MemoryType and MemoryOperation as the memory table reads them
\* (is_rw = 0 is a write-once cell, gen_memory_table).
ReadWrite == 1
WriteOnce == 0
OpRead == 0
OpWrite == 1

Regs == 0 .. (REGISTER_NUM - 1)

\* --------------------------------------------------- decoded instructions
\* A decoded instruction is the token list of its text form (ops[0] is the
\* opcode) with its length in field elements; a register token rN is R(N),
\* psp is R(REG_NOT_USED), a decimal immediate v is N(v).
R(i) == [k |-> "reg", n |-> i]
N(v) == [k |-> "imm", n |-> v]
PSP == R(REG_NOT_USED)
I1(op, ops) == [opcode |-> op, ops |-> ops, step |-> 1]
I2(op, ops) == [opcode |-> op, ops |-> ops, step |-> IMM_INSTRUCTION_LEN]
ImmLine == [opcode |-> "imm", ops |-> <<>>, step |-> 0]
InstrEnd == I1("end", <<>>)

\* The lines of the binary program an instruction occupies.
Lines(ins) == IF ins.step = IMM_INSTRUCTION_LEN THEN <<ins, ImmLine>> ELSE <<ins>>

RECURSIVE Flatten(_)
Flatten(seq) == IF seq = <<>> THEN <<>> ELSE Lines(Head(seq)) \o Flatten(Tail(seq))

\* Sequences over S of length 0 .. n.
RECURSIVE SeqsUpTo(_, _)
SeqsUpTo(S, n) ==
  IF n = 0 THEN {<<>>}
  ELSE LET prev == SeqsUpTo(S, n - 1)
       IN prev \cup {Append(q, x) : q \in {r \in prev : Len(r) = n - 1}, x \in S}

\* Finite maps with a growing domain (BTreeMap, HashMap).
EmptyMap == [x \in {} |-> 0]
Put(m, key, v) == [x \in (DOMAIN m) \cup {key} |-> IF x = key THEN v ELSE m[x]]

\* ---------------------------------------------------------------- state
VARIABLES
  program,              \* Program.instructions: the lines of the binary program
  prophets,             \* host pc -> prophet
  account_tree,         \* the account tree's stored leaves: tree key -> value
  overflow_checks,      \* whether the build panics on integer overflow
  instructions,         \* program.trace.instructions: start pc -> decoded instruction
  status,               \* position in Process::execute
  fault,                \* the error or panic that ended execute
  clk, pc, registers, psp, hp,
  ctx_registers_stack,
  memory,               \* MemoryTree.trace: address -> cells
  storage,              \* StorageTree.trace: tree key -> cells
  storage_log,
  trace,                \* program.trace: the tables
  process_block_calls,  \* the logs handed to AccountTree::process_block
  first_run,            \* what a first run left, for a second run on the same inputs
  runner,               \* an OlaRunner: instructions, context, is_ended, last Result
  codec                 \* an assembly instruction on its way through the encoder

process_state ==
  <<program, prophets, account_tree, overflow_checks, instructions, status,
    fault, clk, pc, registers, psp, hp, ctx_registers_stack, memory,
    storage, storage_log, trace, process_block_calls, first_run>>

vars == <<process_state, runner, codec>>

inputs == <<program, prophets, overflow_checks, instructions, ctx_registers_stack,
            first_run, runner, codec>>

Panics == {"panic: read not init memory", "panic: index out of bounds",
           "panic: arithmetic overflow", "panic: not match opcode",
           "panic: unwrap on None"}

\* --------------------------------------------------------- MemoryTree
MemoryCell(c, op, is_rw, is_write, filter, rp, rpo, re, value) ==
  [clk |-> c, op |-> op, is_rw |-> is_rw, is_write |-> is_write,
   filter_looked_for_main |-> filter, region_prophet |-> rp,
   region_poseidon |-> rpo, region_ecdsa |-> re, value |-> value]

\* read(addr, ...): appends a read cell carrying the latest value at addr;
\* an address never written is a fault.
MemRead(mem, addr, c, op, is_rw, filter, rp, rpo, re) ==
  IF addr \in DOMAIN mem
  THEN LET v == mem[addr][Len(mem[addr])].value
       IN [halt |-> "none", value |-> v,
           memory |-> Put(mem, addr, Append(mem[addr],
                        MemoryCell(c, op, is_rw, OpRead, filter, rp, rpo, re, v)))]
  ELSE [halt |-> "panic: read not init memory", value |-> 0, memory |-> mem]

\* write(addr, ..., value): appends a write cell; when is_rw says write-once
\* an existing cell at the address is a fault.
MemWrite(mem, addr, c, op, is_rw, filter, rp, rpo, re, value) ==
  IF is_rw = WriteOnce /\ addr \in DOMAIN mem
  THEN [halt |-> "WriteOnceViolation", memory |-> mem]
  ELSE [halt |-> "none",
        memory |-> Put(mem, addr,
                       (IF addr \in DOMAIN mem THEN mem[addr] ELSE <<>>)
                         \o <<MemoryCell(c, op, is_rw, OpWrite, filter, rp, rpo, re, value)>>)]

\* --------------------------------------------------- operand evaluation
get_reg_index(tok) == tok.n

get_index_value(tok) ==
  IF tok.k = "imm" THEN tok.n
  ELSE IF tok.n = REG_NOT_USED THEN psp
  ELSE registers[tok.n]

\* register_selector.op1_reg_sel[op1_index] = 1: the selector arrays have one
\* slot per register, so the psp index is out of bounds.
Op1SelOk(tok) == tok.k = "imm" \/ tok.n \in Regs

DefaultSel == [op0 |-> 0, op1 |-> 0, dst |-> 0, aux0 |-> 0, aux1 |-> 0]

\* What one instruction does, before the step's prophet and CPU row.
Eff0 ==
  [registers |-> registers, pc |-> pc, memory |-> memory, storage |-> storage,
   storage_log |-> storage_log, sel |-> DefaultSel, rc |-> <<>>, bw |-> <<>>,
   cmp |-> <<>>, pos |-> <<>>, halt |-> "none"]

Halt(e, h) == [e EXCEPT !.halt = h]

SetDst(e, dst_index, v, sel, step) ==
  [e EXCEPT !.registers = [e.registers EXCEPT ![dst_index] = v],
            !.sel = [sel EXCEPT !.dst = v],
            !.pc = pc + step]

\* "mov" | "not"
MovNotValue(opcode, value) == IF opcode = "mov" THEN value ELSE F_sub(NEG_ONE, value)

\* Mutant of MovNotEffect: the step also writes the value to the register
\* after dst.
MovNotEffectSpills(ins) ==
  LET dst_index == get_reg_index(ins.ops[1])
      value == get_index_value(ins.ops[2])
      e == SetDst(Eff0, dst_index, MovNotValue(ins.opcode, value),
                  [DefaultSel EXCEPT !.op1 = value], ins.step)
  IN [e EXCEPT !.registers[(dst_index + 1) % REGISTER_NUM] = value]

MovNotEffect(ins) ==
  LET dst_index == get_reg_index(ins.ops[1])
      value == get_index_value(ins.ops[2])
  IN SetDst(Eff0, dst_index, MovNotValue(ins.opcode, value),
            [DefaultSel EXCEPT !.op1 = value], ins.step)

\* "eq" | "neq"
EqNeqValue(opcode, a, b) ==
  IF opcode = "eq"
  THEN (IF to_canonical_u64(a) = to_canonical_u64(b) THEN 1 ELSE 0)
  ELSE (IF to_canonical_u64(a) # to_canonical_u64(b) THEN 1 ELSE 0)

EqNeqEffect(ins) ==
  LET dst_index == get_reg_index(ins.ops[1])
      op0_index == get_reg_index(ins.ops[2])
      value == get_index_value(ins.ops[3])
      diff == F_sub(registers[op0_index], value)
      aux0 == IF diff # 0 THEN F_inverse(diff) ELSE diff
  IN IF ~Op1SelOk(ins.ops[3]) THEN Halt(Eff0, "panic: index out of bounds")
     ELSE SetDst(Eff0, dst_index, EqNeqValue(ins.opcode, registers[op0_index], value),
                 [DefaultSel EXCEPT !.op0 = registers[op0_index], !.op1 = value,
                                    !.aux0 = aux0], ins.step)

\* Mutant of AssertFails: only a greater left operand fails.
AssertFailsWhenGreater(a, b) == to_canonical_u64(a) > to_canonical_u64(b)

\* "assert"
AssertFails(a, b) == to_canonical_u64(a) # to_canonical_u64(b)

AssertEffect(ins) ==
  LET op0_index == get_reg_index(ins.ops[1])
      value == get_index_value(ins.ops[2])
  IN IF ~Op1SelOk(ins.ops[2]) THEN Halt(Eff0, "panic: index out of bounds")
     ELSE IF AssertFails(registers[op0_index], value) THEN Halt(Eff0, "AssertFail")
     ELSE [Eff0 EXCEPT !.sel = [DefaultSel EXCEPT !.op0 = registers[op0_index],
                                                  !.op1 = value],
                       !.pc = pc + ins.step]

\* "cjmp"
\* A cjmp that never takes the branch.
CjmpTargetNeverTaken(flag, target, next) == next

CjmpTarget(flag, target, next) == IF to_canonical_u64(flag) = 1 THEN target ELSE next

CjmpEffect(ins) ==
  LET op0_index == get_reg_index(ins.ops[1])
      op1_value == get_index_value(ins.ops[2])
      e == [Eff0 EXCEPT !.pc = CjmpTarget(registers[op0_index], op1_value, pc + ins.step),
                        !.sel = [DefaultSel EXCEPT !.op0 = registers[op0_index],
                                                   !.op1 = op1_value]]
  IN IF ~Op1SelOk(ins.ops[2]) THEN Halt(e, "panic: index out of bounds") ELSE e

\* "jmp"
JmpEffect(ins) ==
  LET value == get_index_value(ins.ops[1])
      e == [Eff0 EXCEPT !.pc = value, !.sel = [DefaultSel EXCEPT !.op1 = value]]
  IN IF ~Op1SelOk(ins.ops[1]) THEN Halt(e, "panic: index out of bounds") ELSE e

\* "add" | "mul" | "sub": the inner match has no "sub" arm.
AddMulEffect(ins) ==
  LET dst_index == get_reg_index(ins.ops[1])
      op0_index == get_reg_index(ins.ops[2])
      op1_value == get_index_value(ins.ops[3])
      sel == [DefaultSel EXCEPT !.op0 = registers[op0_index], !.op1 = op1_value]
  IN IF ~Op1SelOk(ins.ops[3]) THEN Halt(Eff0, "panic: index out of bounds")
     ELSE IF ins.opcode = "add"
       THEN SetDst(Eff0, dst_index, F_add(registers[op0_index], op1_value), sel, ins.step)
     ELSE IF ins.opcode = "mul"
       THEN SetDst(Eff0, dst_index, F_mul(registers[op0_index], op1_value), sel, ins.step)
     ELSE Halt([Eff0 EXCEPT !.sel = sel], "panic: not match opcode")

\* "call": writes the return pc to [fp - 1] and reads [fp - 2]; the addresses
\* are u64 subtractions on the raw frame pointer.
CallEffect(ins) ==
  LET call_addr == get_index_value(ins.ops[1])
      fp == registers[FP_REG_INDEX]
      a1 == U64Sub(fp, 1, overflow_checks)
      a2 == U64Sub(fp, 2, overflow_checks)
      w == MemWrite(memory, a1.v, clk, "call", ReadWrite, 1, 0, 0, 0, pc + ins.step)
      r == MemRead(w.memory, a2.v, clk, "call", ReadWrite, 1, 0, 0, 0)
  IN IF ~a1.ok THEN Halt(Eff0, "panic: arithmetic overflow")
     ELSE IF ~a2.ok THEN Halt([Eff0 EXCEPT !.memory = w.memory], "panic: arithmetic overflow")
     ELSE IF r.halt # "none" THEN Halt([Eff0 EXCEPT !.memory = w.memory], r.halt)
     ELSE [Eff0 EXCEPT !.memory = r.memory,
                       !.pc = call_addr,
                       !.sel = [op0 |-> F_sub(fp, 1), op1 |-> call_addr,
                                dst |-> pc + ins.step, aux0 |-> F_sub(fp, 2),
                                aux1 |-> r.value]]

\* "ret": pc <- [fp - 1], fp <- [fp - 2]
RetEffect(ins) ==
  LET fp == registers[FP_REG_INDEX]
      a1 == U64Sub(fp, 1, overflow_checks)
      a2 == U64Sub(fp, 2, overflow_checks)
      r1 == MemRead(memory, a1.v, clk, "ret", ReadWrite, 1, 0, 0, 0)
      r2 == MemRead(r1.memory, a2.v, clk, "ret", ReadWrite, 1, 0, 0, 0)
  IN IF ~a1.ok THEN Halt(Eff0, "panic: arithmetic overflow")
     ELSE IF r1.halt # "none" THEN Halt(Eff0, r1.halt)
     ELSE IF ~a2.ok
       THEN Halt([Eff0 EXCEPT !.memory = r1.memory, !.pc = r1.value],
                 "panic: arithmetic overflow")
     ELSE IF r2.halt # "none"
       THEN Halt([Eff0 EXCEPT !.memory = r1.memory, !.pc = r1.value], r2.halt)
     ELSE [Eff0 EXCEPT !.memory = r2.memory,
                       !.pc = r1.value,
                       !.registers = [registers EXCEPT ![FP_REG_INDEX] = r2.value],
                       !.sel = [op0 |-> F_sub(fp, 1), op1 |-> 0, dst |-> r1.value,
                                aux0 |-> F_sub(fp, 2), aux1 |-> r2.value]]

\* The offset operand of mstore and mload: ops[3] when it parses as a decimal.
OffsetAddr(ins) ==
  IF Len(ins.ops) = 3 /\ ins.ops[3].k = "imm" THEN ins.ops[3].n ELSE 0

MemAddr(anchor, offset_addr) == to_canonical_u64(F_add(anchor, offset_addr))

\* The memory type and region flags mstore hands to MemoryTree::write.
MstoreRegion(addr) ==
  [is_rw |-> ReadWrite, region_prophet |-> 0, region_poseidon |-> 0, region_ecdsa |-> 0]

\* "mstore"
MstoreEffect(ins) ==
  LET op1_value == get_index_value(ins.ops[1])
      op0_index == get_reg_index(ins.ops[2])
      offset_addr == OffsetAddr(ins)
      addr == MemAddr(op1_value, offset_addr)
      rg == MstoreRegion(addr)
      w == MemWrite(memory, addr, clk, "mstore", rg.is_rw, 1, rg.region_prophet,
                    rg.region_poseidon, rg.region_ecdsa, registers[op0_index])
      sel == [DefaultSel EXCEPT !.op0 = registers[op0_index], !.op1 = op1_value,
                                !.aux0 = offset_addr,
                                !.aux1 = F_add(offset_addr, op1_value)]
  IN IF ~Op1SelOk(ins.ops[1]) THEN Halt(Eff0, "panic: index out of bounds")
     ELSE IF w.halt # "none" THEN Halt([Eff0 EXCEPT !.sel = sel], w.halt)
     ELSE [Eff0 EXCEPT !.memory = w.memory, !.sel = sel, !.pc = pc + ins.step]

\* The memory type and region flags mload derives from the address.
MloadRegion(read_addr) ==
  IF read_addr >= PSP_START_ADDR
    THEN [is_rw |-> WriteOnce, region_prophet |-> 1, region_poseidon |-> 0, region_ecdsa |-> 0]
  ELSE IF read_addr >= POSEIDON_START_ADDR
    THEN [is_rw |-> WriteOnce, region_prophet |-> 0, region_poseidon |-> 1, region_ecdsa |-> 0]
  ELSE IF read_addr >= ECDSA_START_ADDR
    THEN [is_rw |-> WriteOnce, region_prophet |-> 0, region_poseidon |-> 0, region_ecdsa |-> 1]
  ELSE [is_rw |-> ReadWrite, region_prophet |-> 0, region_poseidon |-> 0, region_ecdsa |-> 0]

\* Mutant of MloadEffect: the destination register receives the address
\* instead of the value read.
MloadEffectAddress(ins) ==
  LET dst_index == get_reg_index(ins.ops[1])
      op1_value == get_index_value(ins.ops[2])
      offset_addr == OffsetAddr(ins)
      read_addr == MemAddr(op1_value, offset_addr)
      rg == MloadRegion(read_addr)
      r == MemRead(memory, read_addr, clk, "mload", rg.is_rw, 1, rg.region_prophet,
                   rg.region_poseidon, rg.region_ecdsa)
      sel == [DefaultSel EXCEPT !.op1 = op1_value, !.aux0 = offset_addr,
                                !.aux1 = F_add(offset_addr, op1_value)]
  IN IF ~Op1SelOk(ins.ops[2]) THEN Halt(Eff0, "panic: index out of bounds")
     ELSE IF r.halt # "none" THEN Halt([Eff0 EXCEPT !.sel = sel], r.halt)
     ELSE SetDst([Eff0 EXCEPT !.memory = r.memory], dst_index, read_addr, sel, ins.step)

\* "mload"
MloadEffect(ins) ==
  LET dst_index == get_reg_index(ins.ops[1])
      op1_value == get_index_value(ins.ops[2])
      offset_addr == OffsetAddr(ins)
      read_addr == MemAddr(op1_value, offset_addr)
      rg == MloadRegion(read_addr)
      r == MemRead(memory, read_addr, clk, "mload", rg.is_rw, 1, rg.region_prophet,
                   rg.region_poseidon, rg.region_ecdsa)
      sel == [DefaultSel EXCEPT !.op1 = op1_value, !.aux0 = offset_addr,
                                !.aux1 = F_add(offset_addr, op1_value)]
  IN IF ~Op1SelOk(ins.ops[2]) THEN Halt(Eff0, "panic: index out of bounds")
     ELSE IF r.halt # "none" THEN Halt([Eff0 EXCEPT !.sel = sel], r.halt)
     ELSE SetDst([Eff0 EXCEPT !.memory = r.memory], dst_index, r.value, sel, ins.step)

\* A row of the range-check table: the value and the filter of its producer
\* (memory, cpu, comparison, storage).
RcRow(v, filter) == [val |-> v, filter |-> filter]
RcMemory == <<1, 0, 0, 0>>
RcCpu == <<0, 1, 0, 0>>
RcCmp == <<0, 0, 1, 0>>
RcStorage == <<0, 0, 0, 1>>

\* Mutant of RangeFails: u32::MAX itself is refused.
RangeFailsAtMax(v) == v >= U32_MAX

\* "range"
RangeFails(v) == v > U32_MAX

RangeEffect(ins) ==
  LET op1_index == get_reg_index(ins.ops[1])
  IN IF RangeFails(registers[op1_index]) THEN Halt(Eff0, "U32RangeCheckFail")
     ELSE [Eff0 EXCEPT !.sel = [DefaultSel EXCEPT !.op1 = registers[op1_index]],
                       !.rc = <<RcRow(registers[op1_index], RcCpu)>>,
                       !.pc = pc + ins.step]

\* "and" | "or" | "xor": on the raw u64 of the operands
BitwiseValue(opcode, a, b) ==
  CASE opcode = "and" -> BitAnd(a, b)
    [] opcode = "or" -> BitOr(a, b)
    [] OTHER -> BitXor(a, b)

BitwiseEffect(ins) ==
  LET dst_index == get_reg_index(ins.ops[1])
      op0_index == get_reg_index(ins.ops[2])
      op1_value == get_index_value(ins.ops[3])
      res == BitwiseValue(ins.opcode, registers[op0_index], op1_value)
      e == SetDst(Eff0, dst_index, res,
                  [DefaultSel EXCEPT !.op0 = registers[op0_index], !.op1 = op1_value],
                  ins.step)
  IN IF ~Op1SelOk(ins.ops[3]) THEN Halt(Eff0, "panic: index out of bounds")
     ELSE [e EXCEPT !.bw = <<[opcode |-> ins.opcode, op0 |-> registers[op0_index],
                              op1 |-> op1_value, res |-> res]>>]

\* "gte"
GteValue(a, b) == IF a >= b THEN 1 ELSE 0

GteAbsDiff(dst, op0, op1) == IF dst = 1 THEN F_sub(op0, op1) ELSE F_sub(op1, op0)

GteEffect(ins) ==
  LET dst_index == get_reg_index(ins.ops[1])
      op0_index == get_reg_index(ins.ops[2])
      value == get_index_value(ins.ops[3])
      op0 == registers[op0_index]
      dst == GteValue(op0, value)
      abs_diff == GteAbsDiff(dst, op0, value)
      e == SetDst(Eff0, dst_index, dst,
                  [DefaultSel EXCEPT !.op0 = op0, !.op1 = value], ins.step)
  IN IF ~Op1SelOk(ins.ops[3]) THEN Halt(Eff0, "panic: index out of bounds")
     ELSE [e EXCEPT !.rc = <<RcRow(abs_diff, RcCmp)>>,
                    !.cmp = <<[op0 |-> op0, op1 |-> value, dst |-> dst,
                               abs_diff |-> abs_diff, filter |-> 1]>>]

\* ------------------------------------------------------ storage, poseidon
tree_key_default == <<0, 0, 0, 0>>

\* StorageKey::hashed_key: the Poseidon hash of the contract address and the
\* slot key, kept as the pair it hashes.
hashed_key(address, slot_key) ==
  [i \in 1 .. TREE_VALUE_LEN |-> F_add(F_mul(slot_key[i], 2), address + i)]

\* The Poseidon permutation, kept as a fixed function of its input.
poseidon_output(input) ==
  [i \in 1 .. POSEIDON_OUTPUT_VALUE_LEN |->
     F_add(F_mul(input[i], input[i + POSEIDON_OUTPUT_VALUE_LEN]), i)]

StorageCell(c, op, key, value) == [clk |-> c, op |-> op, addr |-> key, value |-> value]

StorageAppend(st, key, cell) ==
  Put(st, key, (IF key \in DOMAIN st THEN st[key] ELSE <<>>) \o <<cell>>)

update_hash_key(sel, key) ==
  [sel EXCEPT !.op0 = key[1], !.op1 = key[2], !.dst = key[3], !.aux0 = key[4]]

\* "sstore"
SstoreEffect(ins) ==
  LET slot_key == [i \in 1 .. TREE_VALUE_LEN |-> registers[i]]
      store_value == [i \in 1 .. TREE_VALUE_LEN |-> registers[i + 4]]
      tree_key == hashed_key(ctx_registers_stack[Len(ctx_registers_stack)], slot_key)
  IN [Eff0 EXCEPT
        !.storage_log = Append(@, [kind |-> "write", key |-> tree_key,
                                   value |-> store_value,
                                   previous_value |-> tree_key_default]),
        !.storage = StorageAppend(@, tree_key,
                                  StorageCell(clk, "sstore", tree_key, store_value)),
        !.sel = update_hash_key(DefaultSel, tree_key),
        !.pos = <<[clk |-> clk, opcode |-> "sstore", output |-> tree_key]>>,
        !.pc = pc + ins.step]

\* The value sload reads: the last cell of the key, else the account tree,
\* else the default.
SloadValue(st, tree, tree_key) ==
  IF tree_key \in DOMAIN st THEN st[tree_key][Len(st[tree_key])].value
  ELSE IF tree_key \in DOMAIN tree THEN tree[tree_key]
  ELSE tree_key_default

\* An sload that pushes nothing on the storage log.
SloadEffectUnlogged(ins) ==
  LET slot_key == [i \in 1 .. TREE_VALUE_LEN |-> registers[i]]
      tree_key == hashed_key(ctx_registers_stack[Len(ctx_registers_stack)], slot_key)
      read_value == SloadValue(storage, account_tree, tree_key)
  IN [Eff0 EXCEPT
        !.registers = [r \in Regs |->
                         IF r \in 1 .. TREE_VALUE_LEN THEN read_value[r] ELSE registers[r]],
        !.storage = StorageAppend(@, tree_key,
                                  StorageCell(clk, "sload", tree_key, read_value)),
        !.sel = update_hash_key(DefaultSel, read_value),
        !.pos = <<[clk |-> clk, opcode |-> "sload", output |-> tree_key]>>,
        !.pc = pc + ins.step]

\* "sload"
SloadEffect(ins) ==
  LET slot_key == [i \in 1 .. TREE_VALUE_LEN |-> registers[i]]
      tree_key == hashed_key(ctx_registers_stack[Len(ctx_registers_stack)], slot_key)
      read_value == SloadValue(storage, account_tree, tree_key)
  IN [Eff0 EXCEPT
        !.registers = [r \in Regs |->
                         IF r \in 1 .. TREE_VALUE_LEN THEN read_value[r] ELSE registers[r]],
        !.storage_log = Append(@, [kind |-> "read", key |-> tree_key,
                                   value |-> read_value,
                                   previous_value |-> tree_key_default]),
        !.storage = StorageAppend(@, tree_key,
                                  StorageCell(clk, "sload", tree_key, read_value)),
        !.sel = update_hash_key(DefaultSel, read_value),
        !.pos = <<[clk |-> clk, opcode |-> "sload", output |-> tree_key]>>,
        !.pc = pc + ins.step]

\* "poseidon"
PoseidonEffect(ins) ==
  LET input == [i \in 1 .. POSEIDON_INPUT_VALUE_LEN |-> registers[i]]
      out == poseidon_output(input)
  IN [Eff0 EXCEPT
        !.registers = [r \in Regs |->
                         IF r \in 1 .. POSEIDON_OUTPUT_VALUE_LEN THEN out[r]
                         ELSE registers[r]],
        !.sel = update_hash_key(DefaultSel, out),
        !.pos = <<[clk |-> clk, opcode |-> "poseidon", output |-> out]>>,
        !.pc = pc + ins.step]

\* ------------------------------------------------------------- prophets
\* A prophet: its inputs (length, is_ref) and what the scripting interpreter
\* returns for it: ret in {"Single", "Multiple", "Err"}, Multiple carrying
\* nout values for psp and then the new heap pointer.
RECURSIVE SumSeq(_)
SumSeq(q) == IF q = <<>> THEN 0 ELSE Head(q) + SumSeq(Tail(q))

\* Interpreter::run, a function of the prophet and its input values; the
\* values it returns are field elements.
InterpreterRun(prophet, values) ==
  [kind |-> prophet.ret,
   values |-> [i \in 1 .. prophet.nout |-> (prophet.seed + SumSeq(values) + i) % ORDER]
                \o <<prophet.new_hp>>]

\* One flag per value read: the input's is_ref, input.length times.
RECURSIVE InputFlags(_)
InputFlags(ins) ==
  IF ins = <<>> THEN <<>>
  ELSE [i \in 1 .. Head(ins).length |-> Head(ins).is_ref] \o InputFlags(Tail(ins))

\* read_prophet_input: the value comes from registers r1..r3 first, then
\* from the frame slots [fp - 3], [fp - 4], ...
ReadSlot(from_reg, reg_index, a, mem, regs) ==
  IF from_reg THEN [halt |-> "none", value |-> regs[reg_index], memory |-> mem]
  ELSE IF ~a.ok THEN [halt |-> "panic: arithmetic overflow", value |-> 0, memory |-> mem]
  ELSE MemRead(mem, a.v, clk, "none", ReadWrite, 0, 0, 0, 0)

\* read_prophet_input: a reference is read through.
ReadThrough(is_ref, r) ==
  IF r.halt = "none" /\ is_ref
  THEN MemRead(r.memory, r.value, clk, "none", ReadWrite, 0, 0, 0, 0)
  ELSE r

read_prophet_input(is_ref, reg_index, fp, mem, regs) ==
  ReadThrough(is_ref,
              ReadSlot(PROPHET_INPUT_REG_END_INDEX # reg_index, reg_index,
                       U64Sub(regs[FP_REG_INDEX], fp, overflow_checks), mem, regs))

\* The input loop of prophet(): read_prophet_input once per flag.
RECURSIVE ReadProphetInputs(_, _, _, _, _, _)
ReadNext(flags, reg_index, fp, regs, values, r) ==
  IF r.halt # "none" THEN [halt |-> r.halt, memory |-> r.memory, values |-> values]
  ELSE IF PROPHET_INPUT_REG_END_INDEX # reg_index
    THEN ReadProphetInputs(Tail(flags), reg_index + 1, fp, r.memory, regs,
                           Append(values, r.value))
  ELSE ReadProphetInputs(Tail(flags), reg_index, fp + 1, r.memory, regs,
                         Append(values, r.value))

ReadProphetInputs(flags, reg_index, fp, mem, regs, values) ==
  IF flags = <<>> THEN [halt |-> "none", memory |-> mem, values |-> values]
  ELSE ReadNext(flags, reg_index, fp, regs, values,
                read_prophet_input(Head(flags), reg_index, fp, mem, regs))

\* The psp writes of a prophet: one write-once cell per value, clk 0.
RECURSIVE ProphetWrites(_, _, _)
WriteNext(values, mem, p, w) ==
  IF w.halt # "none" THEN [halt |-> w.halt, memory |-> mem, psp |-> p]
  ELSE ProphetWrites(Tail(values), w.memory, F_add(p, 1))

ProphetWrites(values, mem, p) ==
  IF values = <<>> THEN [halt |-> "none", memory |-> mem, psp |-> p]
  ELSE WriteNext(values, mem, p,
                 MemWrite(mem, p, 0, "none", WriteOnce, 0, 1, 0, 0, Head(values)))

\* Process::prophet after the interpreter returned Multiple: the last value
\* is the new heap pointer, the others go to psp.
ProphetStore(values, mem, w) ==
  [halt |-> w.halt, memory |-> w.memory, psp |-> w.psp, hp |-> values[Len(values)]]

\* Mutant of ProphetReturn: every returned value, the last included, is
\* written at psp.
ProphetReturnWritesAll(out, mem) ==
  IF out.kind = "Err" THEN [halt |-> "none", memory |-> mem, psp |-> psp, hp |-> hp]
  ELSE IF out.kind = "Single"
    THEN [halt |-> "ParseIntError", memory |-> mem, psp |-> psp, hp |-> hp]
  ELSE ProphetStore(out.values, mem, ProphetWrites(out.values, mem, psp))

ProphetReturn(out, mem) ==
  IF out.kind = "Err" THEN [halt |-> "none", memory |-> mem, psp |-> psp, hp |-> hp]
  ELSE IF out.kind = "Single"
    THEN [halt |-> "ParseIntError", memory |-> mem, psp |-> psp, hp |-> hp]
  ELSE ProphetStore(out.values, mem,
                    ProphetWrites(SubSeq(out.values, 1, Len(out.values) - 1), mem, psp))

ProphetRun(prophet, rd) ==
  IF rd.halt # "none" THEN [halt |-> rd.halt, memory |-> rd.memory, psp |-> psp, hp |-> hp]
  ELSE ProphetReturn(InterpreterRun(prophet, rd.values), rd.memory)

\* Mutant of ProphetEffect: the register inputs are the registers from before
\* the host instruction.
ProphetEffectBeforeHost(prophet, regs, mem) ==
  ProphetRun(prophet,
             ReadProphetInputs(InputFlags(prophet.inputs), PROPHET_INPUT_REG_START_INDEX,
                               PROPHET_INPUT_FP_START_OFFSET, mem, registers, <<>>))

\* Process::prophet
ProphetEffect(prophet, regs, mem) ==
  ProphetRun(prophet,
             ReadProphetInputs(InputFlags(prophet.inputs), PROPHET_INPUT_REG_START_INDEX,
                               PROPHET_INPUT_FP_START_OFFSET, mem, regs, <<>>))

\* ------------------------------------------------------ the decode pass
\* The first loop of execute: walks the lines by instruction length and fills
\* program.trace.instructions and raw_binary_instructions.
RECURSIVE DecodePass(_, _, _, _)
DecodePass(lines, at, map, raw) ==
  LET instrs_len == Len(lines)
      lim == U64Sub(instrs_len, 2, overflow_checks)
      ins == lines[at + 1]
  IN IF ~(at < instrs_len) THEN [halt |-> "none", instructions |-> map, raw |-> raw]
     ELSE IF ~lim.ok THEN [halt |-> "panic: arithmetic overflow", instructions |-> map, raw |-> raw]
     ELSE IF lim.v >= at /\ at + 1 >= instrs_len
       THEN [halt |-> "panic: index out of bounds", instructions |-> map, raw |-> raw]
     ELSE DecodePass(lines, at + ins.step, Put(map, at, ins),
                     raw \o SubSeq(lines, at + 1, at + ins.step))

\* ------------------------------------------------------------ the tables
EmptyTrace ==
  [exec |-> <<>>, memory |-> <<>>, builtin_rangecheck |-> <<>>,
   builtin_bitwise_combined |-> <<>>, builtin_cmp |-> <<>>,
   builtin_posiedon |-> <<>>, builtin_storage |-> <<>>,
   builtin_storage_hash |-> <<>>, raw_binary_instructions |-> <<>>]

\* The CPU row of a step: clk, the pc and registers from before the
\* instruction, and the selector values.
CpuRow(c, pc_status, opcode, registers_status, sel) ==
  [clk |-> c, pc |-> pc_status, opcode |-> opcode, registers |-> registers_status,
   op0 |-> sel.op0, op1 |-> sel.op1, dst |-> sel.dst, aux0 |-> sel.aux0,
   aux1 |-> sel.aux1]

insert_step(tr, row) == [tr EXCEPT !.exec = Append(@, row)]

RECURSIVE SetToSortedSeq(_)
SetToSortedSeq(S) ==
  IF S = {} THEN <<>>
  ELSE LET m == CHOOSE x \in S : \A y \in S : x <= y
       IN <<m>> \o SetToSortedSeq(S \ {m})

U32Sub(a, b, checks) ==
  IF a >= b THEN [ok |-> TRUE, v |-> a - b]
  ELSE IF checks THEN [ok |-> FALSE, v |-> 0]
  ELSE [ok |-> TRUE, v |-> a - b + U32_MAX + 1]

\* diff_addr_cond of a memory cell: the distance to the region boundary.
DiffAddrCond(cell, canonical_addr) ==
  IF cell.region_prophet = 1 THEN U64Sub(ORDER, canonical_addr, overflow_checks)
  ELSE IF cell.region_poseidon = 1
    THEN U64Sub(ORDER - REGION_SPAN, canonical_addr, overflow_checks)
  ELSE IF cell.region_ecdsa = 1
    THEN U64Sub(ORDER - 2 * REGION_SPAN, canonical_addr, overflow_checks)
  ELSE [ok |-> TRUE, v |-> 0]

IsWriteOnceCell(cell) ==
  cell.region_prophet = 1 \/ cell.region_poseidon = 1 \/ cell.region_ecdsa = 1

MemoryTraceCell(addr, cell, diff_addr, diff_addr_inv, diff_clk, diff_addr_cond,
                rw_addr_unchanged, rc_value) ==
  [addr |-> addr, clk |-> cell.clk, is_rw |-> cell.is_rw, op |-> cell.op,
   is_write |-> cell.is_write, diff_addr |-> diff_addr,
   diff_addr_inv |-> diff_addr_inv, diff_clk |-> diff_clk,
   diff_addr_cond |-> diff_addr_cond,
   filter_looked_for_main |-> cell.filter_looked_for_main,
   rw_addr_unchanged |-> rw_addr_unchanged, region_prophet |-> cell.region_prophet,
   region_poseidon |-> cell.region_poseidon, region_ecdsa |-> cell.region_ecdsa,
   value |-> cell.value, filter_looking_rc |-> 1, rc_value |-> rc_value]

\* The body of gen_memory_table's inner loop for one cell.
GenMemoryCell(acc, canonical_addr, cell) ==
  LET cond == DiffAddrCond(cell, canonical_addr)
      write_one_flag == acc.write_one_flag \/ IsWriteOnceCell(cell)
      d_addr == U64Sub(canonical_addr, acc.origin_addr, overflow_checks)
      d_clk == U64Sub(cell.clk, acc.origin_clk, overflow_checks)
      row == IF acc.first_row_flag
               THEN MemoryTraceCell(canonical_addr, cell, 0, 0, 0, cond.v, 0, 0)
             ELSE IF acc.new_addr_flag
               THEN MemoryTraceCell(canonical_addr, cell, d_addr.v,
                                    IF write_one_flag THEN 0 ELSE F_inverse(d_addr.v),
                                    0, cond.v, 0,
                                    IF write_one_flag THEN cond.v ELSE d_addr.v)
             ELSE MemoryTraceCell(canonical_addr, cell, 0, 0, d_clk.v, cond.v,
                                  IF cell.is_rw = 0 THEN 0 ELSE 1,
                                  IF cell.is_rw = 0 THEN cond.v ELSE d_clk.v)
      bad == \/ ~cond.ok
             \/ ~acc.first_row_flag /\ acc.new_addr_flag /\ ~d_addr.ok
             \/ ~acc.first_row_flag /\ ~acc.new_addr_flag /\ ~d_clk.ok
  IN IF acc.halt # "none" THEN acc
     ELSE IF bad THEN [acc EXCEPT !.halt = "panic: arithmetic overflow"]
     ELSE [acc EXCEPT !.rows = Append(@, row),
                      !.rc = Append(@, RcRow(row.rc_value, RcMemory)),
                      !.first_row_flag = FALSE,
                      !.new_addr_flag = FALSE,
                      !.write_one_flag = write_one_flag,
                      !.origin_clk = cell.clk]

RECURSIVE GenMemoryCells(_, _, _)
GenMemoryCells(acc, canonical_addr, cells) ==
  IF cells = <<>> THEN acc
  ELSE GenMemoryCells(GenMemoryCell(acc, canonical_addr, Head(cells)),
                      canonical_addr, Tail(cells))

RECURSIVE GenMemoryAddrs(_, _, _)
GenMemoryAddrs(acc, mem, addrs) ==
  IF addrs = <<>> THEN acc
  ELSE LET canonical_addr == to_canonical_u64(Head(addrs))
           a == GenMemoryCells([acc EXCEPT !.new_addr_flag = TRUE,
                                           !.write_one_flag = FALSE],
                               canonical_addr, mem[Head(addrs)])
       IN GenMemoryAddrs([a EXCEPT !.origin_addr = canonical_addr], mem, Tail(addrs))

\* A gen_memory_table that walks the addresses from the highest key down.
gen_memory_table_descending(mem) ==
  LET ascending == SetToSortedSeq(DOMAIN mem)
      descending == [i \in DOMAIN ascending |-> ascending[Len(ascending) + 1 - i]]
  IN GenMemoryAddrs([origin_addr |-> 0, origin_clk |-> 0, first_row_flag |-> TRUE,
                     new_addr_flag |-> TRUE, write_one_flag |-> FALSE,
                     rows |-> <<>>, rc |-> <<>>, halt |-> "none"],
                    mem, descending)

\* gen_memory_table: the addresses in key order, the cells of an address in
\* the order they were appended.
gen_memory_table(mem) ==
  GenMemoryAddrs([origin_addr |-> 0, origin_clk |-> 0, first_row_flag |-> TRUE,
                  new_addr_flag |-> TRUE, write_one_flag |-> FALSE,
                  rows |-> <<>>, rc |-> <<>>, halt |-> "none"],
                 mem, SetToSortedSeq(DOMAIN mem))

\* AccountTree::process_block: applies the log to the tree and returns, per
\* log entry, the root after it (kept as the tree's leaves).
RECURSIVE process_block(_, _, _)
process_block(tree, log, roots) ==
  IF log = <<>> THEN [tree |-> tree, roots |-> roots]
  ELSE LET e == Head(log)
           t == IF e.kind = "write" THEN Put(tree, e.key, e.value) ELSE tree
       IN process_block(t, Tail(log), Append(roots, t))

\* gen_storage_hash_table: one block of hash rows per log entry.
StorageHashRows(log, roots) ==
  [i \in 1 .. Len(log) |-> [idx_storage |-> i, addr |-> log[i].key, root |-> roots[i]]]

\* The orders in which a HashMap may yield its keys.
KeyOrders(m) ==
  {q \in [1 .. Cardinality(DOMAIN m) -> DOMAIN m] :
     \A i, j \in DOMAIN q : i # j => q[i] # q[j]}

RECURSIVE FlattenCells(_, _)
FlattenCells(m, order) ==
  IF order = <<>> THEN <<>> ELSE m[Head(order)] \o FlattenCells(m, Tail(order))

\* Ord for storage cells: by clk.
StorageCellLe(a, b) == a.clk <= b.clk

RECURSIVE InsertSorted(_, _)
InsertSorted(sorted, x) ==
  IF sorted = <<>> THEN <<x>>
  ELSE IF StorageCellLe(sorted[Len(sorted)], x) THEN Append(sorted, x)
  ELSE Append(InsertSorted(SubSeq(sorted, 1, Len(sorted) - 1), x), sorted[Len(sorted)])

\* Mutant of SortCells: the cells stay in the order the map yielded them.
SortCellsUnsorted(q) == q

\* traces.sort_by(|a, b| a.cmp(b)), a stable sort
RECURSIVE SortCells(_)
SortCells(q) ==
  IF q = <<>> THEN <<>>
  ELSE InsertSorted(SortCells(SubSeq(q, 1, Len(q) - 1)), q[Len(q)])

RECURSIVE StorageRows(_, _, _, _, _)
StorageRows(traces, hash_roots, i, pre_clk, acc) ==
  IF i > Len(traces) \/ i > Len(hash_roots) \/ acc.halt # "none" THEN acc
  ELSE LET item == traces[i]
           d == IF i # 1 THEN U32Sub(item.clk, pre_clk, overflow_checks)
                ELSE [ok |-> TRUE, v |-> 0]
       IN IF ~d.ok THEN [acc EXCEPT !.halt = "panic: arithmetic overflow"]
          ELSE StorageRows(traces, hash_roots, i + 1, item.clk,
                 [acc EXCEPT !.rows = Append(@, [clk |-> item.clk, diff_clk |-> d.v,
                                                 op |-> item.op, root |-> hash_roots[i],
                                                 addr |-> item.addr, value |-> item.value]),
                             !.rc = Append(@, RcRow(d.v, RcStorage))])

\* gen_storage_table for one iteration order of the storage map.
gen_storage_table(st, order, hash_roots) ==
  IF hash_roots = <<>> THEN [rows |-> <<>>, rc |-> <<>>, halt |-> "none"]
  ELSE StorageRows(SortCells(FlattenCells(st, order)), hash_roots, 1, 0,
                   [rows |-> <<>>, rc |-> <<>>, halt |-> "none"])

\* ------------------------------------------------------------- actions
Running ==
  /\ status = "running"
  /\ clk <= MaxClk
  /\ ctx_registers_stack # <<>>
  /\ pc \in DOMAIN instructions

Cur == instructions[pc]

HaltStatus(h) == IF h \in Panics THEN "panic" ELSE "fault"

\* The rest of a loop iteration after the opcode's match arm: the prophet
\* hosted at the pc before the instruction, the CPU row, the bound check on
\* pc and clk += 1.
Commit(e) ==
  LET hosted == e.halt = "none" /\ pc \in DOMAIN prophets
      pe == IF hosted THEN ProphetEffect(prophets[pc], e.registers, e.memory)
            ELSE [halt |-> e.halt, memory |-> e.memory, psp |-> psp, hp |-> hp]
      tr == [trace EXCEPT !.builtin_rangecheck = @ \o e.rc,
                          !.builtin_bitwise_combined = @ \o e.bw,
                          !.builtin_cmp = @ \o e.cmp,
                          !.builtin_posiedon = @ \o e.pos]
  IN /\ registers' = e.registers
     /\ pc' = e.pc
     /\ memory' = pe.memory
     /\ psp' = pe.psp
     /\ hp' = pe.hp
     /\ storage' = e.storage
     /\ storage_log' = e.storage_log
     /\ IF pe.halt # "none"
        THEN /\ status' = HaltStatus(pe.halt)
             /\ fault' = pe.halt
             /\ trace' = tr
             /\ clk' = clk
        ELSE /\ trace' = insert_step(tr, CpuRow(clk, pc, Cur.opcode, registers, e.sel))
             /\ fault' = fault
             /\ IF e.pc >= Len(program)
                THEN status' = "loop_done" /\ clk' = clk
                ELSE status' = "running" /\ clk' = clk + 1
     /\ UNCHANGED <<inputs, account_tree, process_block_calls>>

Decode ==
  /\ status = "decode"
  /\ LET d == DecodePass(program, 0, EmptyMap, <<>>)
     IN /\ instructions' = d.instructions
        /\ trace' = [trace EXCEPT !.raw_binary_instructions = d.raw]
        /\ IF d.halt # "none"
           THEN status' = "panic" /\ fault' = d.halt
           ELSE status' = "running" /\ fault' = fault
  /\ storage_log' = <<>>
  /\ UNCHANGED <<program, prophets, account_tree, overflow_checks, clk, pc, registers,
                 psp, hp, ctx_registers_stack, memory, storage, process_block_calls,
                 first_run, runner, codec>>

\* ctx_registers_stack.last().unwrap() and instructions.get(&pc).unwrap()
FetchPanic ==
  /\ status = "running"
  /\ ctx_registers_stack = <<>> \/ pc \notin DOMAIN instructions
  /\ status' = "panic"
  /\ fault' = "panic: unwrap on None"
  /\ UNCHANGED <<inputs, account_tree, clk, pc, registers, psp, hp, memory, storage,
                 storage_log, trace, process_block_calls>>

ExecMovNot == Running /\ Cur.opcode \in {"mov", "not"} /\ Commit(MovNotEffect(Cur))
ExecEqNeq == Running /\ Cur.opcode \in {"eq", "neq"} /\ Commit(EqNeqEffect(Cur))
ExecAssert == Running /\ Cur.opcode = "assert" /\ Commit(AssertEffect(Cur))
ExecCjmp == Running /\ Cur.opcode = "cjmp" /\ Commit(CjmpEffect(Cur))
ExecJmp == Running /\ Cur.opcode = "jmp" /\ Commit(JmpEffect(Cur))
ExecAddMul == Running /\ Cur.opcode \in {"add", "mul", "sub"} /\ Commit(AddMulEffect(Cur))
ExecCall == Running /\ Cur.opcode = "call" /\ Commit(CallEffect(Cur))
ExecRet == Running /\ Cur.opcode = "ret" /\ Commit(RetEffect(Cur))
ExecMstore == Running /\ Cur.opcode = "mstore" /\ Commit(MstoreEffect(Cur))
ExecMload == Running /\ Cur.opcode = "mload" /\ Commit(MloadEffect(Cur))
ExecRange == Running /\ Cur.opcode = "range" /\ Commit(RangeEffect(Cur))
ExecBitwise == Running /\ Cur.opcode \in {"and", "or", "xor"} /\ Commit(BitwiseEffect(Cur))
ExecGte == Running /\ Cur.opcode = "gte" /\ Commit(GteEffect(Cur))
ExecSstore == Running /\ Cur.opcode = "sstore" /\ Commit(SstoreEffect(Cur))
ExecSload == Running /\ Cur.opcode = "sload" /\ Commit(SloadEffect(Cur))
ExecPoseidon == Running /\ Cur.opcode = "poseidon" /\ Commit(PoseidonEffect(Cur))

\* "end": the CPU row, then break; the prophet of the step is not run.
EndRow == CpuRow(clk, pc, "end", registers, DefaultSel)

\* Mutant of ExecEnd: the loop breaks without the row of the END step.
ExecEndNoRow ==
  /\ Running
  /\ Cur.opcode = "end"
  /\ status' = "loop_done"
  /\ UNCHANGED <<inputs, account_tree, fault, clk, pc, registers, psp, hp, memory,
                 storage, storage_log, process_block_calls, trace>>

ExecEnd ==
  /\ Running
  /\ Cur.opcode = "end"
  /\ trace' = insert_step(trace, EndRow)
  /\ status' = "loop_done"
  /\ UNCHANGED <<inputs, account_tree, fault, clk, pc, registers, psp, hp, memory,
                 storage, storage_log, process_block_calls>>

\* After the loop: gen_storage_hash_table, gen_storage_table, gen_memory_table,
\* then Ok(()).
GenTables ==
  /\ status = "loop_done"
  /\ \E order \in KeyOrders(storage) :
       LET pb == process_block(account_tree, storage_log, <<>>)
           st == gen_storage_table(storage, order, pb.roots)
           mt == gen_memory_table(memory)
           halt == IF st.halt # "none" THEN st.halt ELSE mt.halt
       IN /\ process_block_calls' = Append(process_block_calls, storage_log)
          /\ account_tree' = pb.tree
          /\ storage_log' = <<>>
          /\ storage' = IF pb.roots = <<>> THEN storage ELSE EmptyMap
          /\ trace' = [trace EXCEPT
                         !.builtin_storage_hash = @ \o StorageHashRows(storage_log, pb.roots),
                         !.builtin_storage = @ \o st.rows,
                         !.memory = @ \o (IF st.halt = "none" THEN mt.rows ELSE <<>>),
                         !.builtin_rangecheck =
                            @ \o st.rc \o (IF st.halt = "none" THEN mt.rc ELSE <<>>)]
          /\ IF halt # "none"
             THEN status' = "panic" /\ fault' = halt
             ELSE status' = "ok" /\ fault' = fault
  /\ UNCHANGED <<inputs, clk, pc, registers, psp, hp, memory>>

\* ============================================================ OlaRunner
\* OlaOperand and BinaryInstruction as the runner receives them; an absent
\* operand is NoOperand.
ImmediateOperand(v) == [k |-> "imm", v |-> v]
RegisterOperand(r) == [k |-> "reg", r |-> r]
RegisterWithOffset(r, off) == [k |-> "regoff", r |-> r, off |-> off]
SpecialReg(sr) == [k |-> "special", sr |-> sr]
NoOperand == [k |-> "none"]
NoProphet == [ret |-> "none"]

BinaryInstruction(opcode, op0, op1, dst, prophet) ==
  [opcode |-> opcode, op0 |-> op0, op1 |-> op1, dst |-> dst, prophet |-> prophet]

\* BinaryInstruction::binary_length: two field elements when an operand
\* carries an immediate.
binary_length(i) ==
  IF \E o \in {i.op0, i.op1, i.dst} : o.k \in {"imm", "regoff"} THEN 2 ELSE 1

\* new_from_instruction_vec: each instruction keyed by the sum of the
\* lengths before it.
RECURSIVE InstructionMap(_, _, _)
InstructionMap(vec, index, map) ==
  IF vec = <<>> THEN map
  ELSE InstructionMap(Tail(vec), index + binary_length(Head(vec)), Put(map, index, Head(vec)))

\* OlaContext::default()
DefaultContext(mem) ==
  [clk |-> 0, pc |-> 0, psp |-> ORDER - (U32_MAX + 1),
   registers |-> [r \in 0 .. 8 |-> 0], memory |-> mem]

new_from_instruction_vec(vec, mem) ==
  [instructions |-> InstructionMap(vec, 0, EmptyMap), context |-> DefaultContext(mem),
   is_ended |-> FALSE, result |-> "none", rows |-> <<>>]

get_fp(c) == c.registers[8]

\* OlaMemory::read and store_in_segment_read_write
RunnerRead(c, addr) ==
  IF addr \in DOMAIN c.memory THEN [e |-> "none", v |-> c.memory[addr]]
  ELSE [e |-> "MemoryReadError", v |-> 0]

RunnerStore(c, addr, v) == [c EXCEPT !.memory = Put(@, addr, v)]

get_operand_value(c, operand) ==
  CASE operand.k = "imm" -> [e |-> "none", v |-> operand.v]
    [] operand.k = "reg" -> [e |-> "none", v |-> c.registers[operand.r]]
    [] operand.k = "regoff" -> [e |-> "none", v |-> F_add(c.registers[operand.r], operand.off)]
    [] operand.k = "special" ->
         IF operand.sr = "psp" THEN [e |-> "none", v |-> c.psp]
         ELSE [e |-> "pc cannot be an operand", v |-> 0]
    [] OTHER -> [e |-> "panic: unwrap on None", v |-> 0]

split_register_offset_operand(c, operand) ==
  CASE operand.k = "regoff" ->
         [e |-> "none", anchor |-> c.registers[operand.r], offset |-> operand.off]
    [] operand.k = "none" -> [e |-> "panic: unwrap on None", anchor |-> 0, offset |-> 0]
    [] OTHER -> [e |-> "error split anchor and offset", anchor |-> 0, offset |-> 0]

\* What run_one_step leaves: the context, is_ended, the Result and the
\* memory rows of the appender it returns.
StepErr(c, e) == [context |-> c, is_ended |-> FALSE, result |-> e, rows |-> <<>>]
StepOk(c, rows) == [context |-> c, is_ended |-> FALSE, result |-> "ok", rows |-> rows]

RowMemory(addr, value, is_write, opcode) ==
  [addr |-> addr, value |-> value, is_write |-> is_write, opcode |-> opcode]

Advance(c, len) == [c EXCEPT !.clk = @ + 1, !.pc = @ + len]
JumpTo(c, target) == [c EXCEPT !.clk = @ + 1, !.pc = target]

update_dst_reg(c, result, dst_operand, rows) ==
  CASE dst_operand.k = "reg" ->
         StepOk([c EXCEPT !.registers[dst_operand.r] = result], rows)
    [] dst_operand.k = "none" -> StepErr(c, "panic: unwrap on None")
    [] OTHER -> StepErr(c, "invalid dst operand")

\* The result of a two-operand opcode; eq and neq invert op0 - op1 when the
\* raw values differ.
TwoOperandsValue(opcode, a, b) ==
  CASE opcode = "add" -> [e |-> "none", v |-> F_add(a, b)]
    [] opcode = "mul" -> [e |-> "none", v |-> F_mul(a, b)]
    [] opcode \in {"eq", "neq"} ->
         IF a # b /\ F_sub(a, b) = 0 THEN [e |-> "panic: invert zero", v |-> 0]
         ELSE [e |-> "none", v |-> IF (opcode = "eq") = (a = b) THEN 1 ELSE 0]
    [] opcode = "and" -> [e |-> "none", v |-> BitAnd(a, b)]
    [] opcode = "or" -> [e |-> "none", v |-> BitOr(a, b)]
    [] opcode = "xor" -> [e |-> "none", v |-> BitXor(a, b)]
    [] OTHER -> [e |-> "none", v |-> IF a >= b THEN 1 ELSE 0]

on_two_operands_arithmetic_op(c, i, a, b) ==
  IF a.e # "none" THEN StepErr(c, a.e)
  ELSE IF b.e # "none" THEN StepErr(c, b.e)
  ELSE LET d == TwoOperandsValue(i.opcode, a.v, b.v)
       IN IF d.e # "none" THEN StepErr(c, d.e)
          ELSE update_dst_reg(Advance(c, binary_length(i)), d.v, i.dst, <<>>)

OnAssert(c, i, a, b) ==
  IF a.e # "none" THEN StepErr(c, a.e)
  ELSE IF b.e # "none" THEN StepErr(c, b.e)
  ELSE IF a.v # b.v THEN StepErr(c, "AssertFailError")
  ELSE StepOk(Advance(c, binary_length(i)), <<>>)

OnMov(c, i, b) ==
  IF b.e # "none" THEN StepErr(c, b.e)
  ELSE update_dst_reg(Advance(c, binary_length(i)), b.v, i.dst, <<>>)

OnNot(c, i, b) ==
  IF b.e # "none" THEN StepErr(c, b.e)
  ELSE update_dst_reg(Advance(c, binary_length(i)), F_sub(NEG_ONE, b.v), i.dst, <<>>)

OnJmp(c, i, b) ==
  IF b.e # "none" THEN StepErr(c, b.e) ELSE StepOk(JumpTo(c, b.v), <<>>)

OnCjmp(c, i, a, b) ==
  IF a.e # "none" THEN StepErr(c, a.e)
  ELSE IF b.e # "none" THEN StepErr(c, b.e)
  ELSE IF a.v # 0 /\ a.v # 1 THEN StepErr(c, "FlagNotBinaryError")
  ELSE StepOk(JumpTo(c, IF a.v = 1 THEN b.v ELSE c.pc + binary_length(i)), <<>>)

OnCall(c, i, b, trace_op0, trace_dst, aux1) ==
  IF b.e # "none" THEN StepErr(c, b.e)
  ELSE IF aux1.e # "none" THEN StepErr(c, aux1.e)
  ELSE StepOk(RunnerStore(JumpTo(c, to_canonical_u64(b.v)), trace_op0, trace_dst),
              <<RowMemory(trace_op0, trace_dst, TRUE, "call"),
                RowMemory(to_canonical_u64(F_sub(get_fp(c), 2)), aux1.v, FALSE, "call")>>)

\* RET: pc from [fp - 1]; [fp - 2] is read for the trace row only.
OnRet(c, trace_dst, aux1) ==
  IF trace_dst.e # "none" THEN StepErr(c, trace_dst.e)
  ELSE IF aux1.e # "none" THEN StepErr(c, aux1.e)
  ELSE StepOk(JumpTo(c, to_canonical_u64(trace_dst.v)),
              <<RowMemory(to_canonical_u64(F_sub(get_fp(c), 1)), trace_dst.v, FALSE, "ret"),
                RowMemory(to_canonical_u64(F_sub(get_fp(c), 2)), aux1.v, FALSE, "ret")>>)

\* MLOAD hands op1, the register-with-offset operand, to update_dst_reg.
OnMloadRead(c, i, addr, rd) ==
  IF rd.e # "none" THEN StepErr(c, rd.e)
  ELSE update_dst_reg(Advance(c, binary_length(i)), rd.v, i.op1,
                      <<RowMemory(addr, rd.v, FALSE, "mload")>>)

OnMload(c, i, sp) ==
  IF sp.e # "none" THEN StepErr(c, sp.e)
  ELSE OnMloadRead(c, i, to_canonical_u64(F_add(sp.anchor, sp.offset)),
                   RunnerRead(c, to_canonical_u64(F_add(sp.anchor, sp.offset))))

\* MSTORE returns the write row; the context memory is not stored to.
OnMstore(c, i, sp, a) ==
  IF sp.e # "none" THEN StepErr(c, sp.e)
  ELSE IF a.e # "none" THEN StepErr(c, a.e)
  ELSE StepOk(Advance(c, binary_length(i)),
              <<RowMemory(to_canonical_u64(F_add(sp.anchor, sp.offset)), a.v, TRUE, "mstore")>>)

\* Mutant of OnEnd: END is stepped over like any other instruction.
OnEndSteppedOver(c) == StepOk(Advance(c, 1), <<>>)

OnEnd(c) == [StepOk(c, <<>>) EXCEPT !.is_ended = TRUE]

OnRc(c, i, b) ==
  IF b.e # "none" THEN StepErr(c, b.e)
  ELSE IF to_canonical_u64(b.v) >= U32_MAX + 1 THEN StepErr(c, "RangeCheckFailedError")
  ELSE StepOk(Advance(c, binary_length(i)), <<>>)

\* The match on instruction.opcode in run_one_step.
OnOpcode(c, i) ==
  CASE i.opcode \in {"add", "mul", "eq", "and", "or", "xor", "neq", "gte"} ->
         on_two_operands_arithmetic_op(c, i, get_operand_value(c, i.op0),
                                       get_operand_value(c, i.op1))
    [] i.opcode = "assert" ->
         OnAssert(c, i, get_operand_value(c, i.op0), get_operand_value(c, i.op1))
    [] i.opcode = "mov" -> OnMov(c, i, get_operand_value(c, i.op1))
    [] i.opcode = "jmp" -> OnJmp(c, i, get_operand_value(c, i.op1))
    [] i.opcode = "cjmp" ->
         OnCjmp(c, i, get_operand_value(c, i.op0), get_operand_value(c, i.op1))
    [] i.opcode = "call" ->
         OnCall(c, i, get_operand_value(c, i.op1), to_canonical_u64(F_sub(get_fp(c), 1)),
                c.pc + binary_length(i),
                RunnerRead(c, to_canonical_u64(F_sub(get_fp(c), 2))))
    [] i.opcode = "ret" ->
         OnRet(c, RunnerRead(c, to_canonical_u64(F_sub(get_fp(c), 1))),
               RunnerRead(c, to_canonical_u64(F_sub(get_fp(c), 2))))
    [] i.opcode = "mload" -> OnMload(c, i, split_register_offset_operand(c, i.op1))
    [] i.opcode = "mstore" ->
         OnMstore(c, i, split_register_offset_operand(c, i.op1),
                  get_operand_value(c, i.op0))
    [] i.opcode = "end" -> OnEnd(c)
    [] i.opcode = "rc" -> OnRc(c, i, get_operand_value(c, i.op1))
    [] OTHER -> OnNot(c, i, get_operand_value(c, i.op1))

\* on_prophet: the values of the inputs stored in registers go to the
\* interpreter; every returned value becomes a write row at psp, and psp
\* advances once.
RECURSIVE RegisterInputs(_, _)
RegisterInputs(c, ins) ==
  IF ins = <<>> THEN <<>>
  ELSE IF Head(ins).stored_in = "reg"
    THEN <<to_canonical_u64(c.registers[Head(ins).anchor])>> \o RegisterInputs(c, Tail(ins))
  ELSE RegisterInputs(c, Tail(ins))

ProphetRows(c, values) ==
  [n \in 1 .. Len(values) |-> RowMemory(c.psp, values[n], TRUE, "none")]

on_prophet(st, prophet, out) ==
  IF out.kind = "Single" THEN [st EXCEPT !.result = "ProphetReturnTypeError", !.rows = <<>>]
  ELSE IF out.kind = "Err" THEN [st EXCEPT !.result = "InterpreterError", !.rows = <<>>]
  ELSE [st EXCEPT !.rows = @ \o ProphetRows(st.context, out.values),
                  !.context.psp = @ + 1]

\* run_one_step past the fetch: the opcode's arm, then the prophet of the
\* instruction.
StepWithProphet(st, i) ==
  IF st.result # "ok" \/ i.prophet.ret = "none" THEN st
  ELSE on_prophet(st, i.prophet,
                  InterpreterRun(i.prophet, RegisterInputs(st.context, i.prophet.inputs)))


RunnerDead == runner.result \in {"panic: unwrap on None", "panic: invert zero"}

RunAfterEnded ==
  /\ ~RunnerDead
  /\ runner.is_ended
  /\ runner' = [runner EXCEPT !.result = "RunAfterEndedError", !.rows = <<>>]
  /\ UNCHANGED <<process_state, codec>>

InstructionNotFound ==
  /\ ~RunnerDead
  /\ ~runner.is_ended
  /\ runner.context.pc \notin DOMAIN runner.instructions
  /\ runner' = [runner EXCEPT !.result = "InstructionNotFoundError", !.rows = <<>>]
  /\ UNCHANGED <<process_state, codec>>

RunInstruction ==
  /\ ~RunnerDead
  /\ ~runner.is_ended
  /\ runner.context.pc \in DOMAIN runner.instructions
  /\ runner.context.clk <= MaxClk
  /\ LET i == runner.instructions[runner.context.pc]
         st == StepWithProphet(OnOpcode(runner.context, i), i)
     IN runner' = [runner EXCEPT !.context = st.context,
                                 !.is_ended = st.is_ended,
                                 !.result = st.result,
                                 !.rows = st.rows]
  /\ UNCHANGED <<process_state, codec>>

\* ------------------------------------------------------------- programs
V_U32 == U32_MAX + 1

Mov(r, v) == I2("mov", <<R(r), N(v)>>)
MovReg(r, t) == I1("mov", <<R(r), t>>)
Op3(op, d, a, b) == I1(op, <<R(d), R(a), R(b)>>)
Mstore(anchor, off, src) == I2("mstore", <<anchor, R(src), N(off)>>)
Mload(dst, anchor, off) == I2("mload", <<R(dst), anchor, N(off)>>)

NoProphets == EmptyMap

Prophet(ins, ret, nout, seed, new_hp) ==
  [inputs |-> ins, ret |-> ret, nout |-> nout, seed |-> seed, new_hp |-> new_hp]

Input(length, is_ref) == [length |-> length, is_ref |-> is_ref]

Scenario(instrs, ps, tree) ==
  [program |-> Flatten(instrs), prophets |-> ps, account_tree |-> tree]

EmptyTree == EmptyMap

\* An account tree holding a value under the key of the zero slot.
SeededTree == Put(EmptyMap, hashed_key(0, <<0, 0, 0, 0>>), <<7, 0, 0, 0>>)

\* mov r0 8; mstore [r8,0] r0; mov r0 0; mload r0 [r8,0]; end
MemoryRoundTrip ==
  Scenario(<<Mov(0, 8), Mstore(R(8), 0, 0), Mov(0, 0), Mload(0, R(8), 0), InstrEnd>>,
           NoProphets, EmptyTree)

\* mov r0 4294967296; range r0; end
RangeFault == Scenario(<<Mov(0, V_U32), I1("range", <<R(0)>>), InstrEnd>>, NoProphets, EmptyTree)

\* mstore [psp,0] r0; mov r0 1; mstore [psp,0] r0; end
WriteOnceTwice ==
  Scenario(<<Mstore(PSP, 0, 0), Mov(0, 1), Mstore(PSP, 0, 0), InstrEnd>>, NoProphets, EmptyTree)

\* mov r1 psp; mstore [r1,0] r0; mov r0 1; mstore [r1,0] r0; end
WriteOnceTwiceViaReg ==
  Scenario(<<MovReg(1, PSP), Mstore(R(1), 0, 0), Mov(0, 1), Mstore(R(1), 0, 0),
             InstrEnd>>, NoProphets, EmptyTree)

\* sstore; mov r1 1; sstore; sload; mov r1 0; sstore; end
StorageOps(tree) ==
  Scenario(<<I1("sstore", <<>>), Mov(1, 1), I1("sstore", <<>>), I1("sload", <<>>),
             Mov(1, 0), I1("sstore", <<>>), InstrEnd>>, NoProphets, tree)

\* sstore; sload; mov r0 4294967296; range r0; end
StorageThenFault ==
  Scenario(<<I1("sstore", <<>>), I1("sload", <<>>), Mov(0, V_U32), I1("range", <<R(0)>>),
             InstrEnd>>, NoProphets, EmptyTree)

\* mov r1 1; poseidon; end
PoseidonOnce == Scenario(<<Mov(1, 1), I1("poseidon", <<>>), InstrEnd>>, NoProphets, EmptyTree)

\* sub r0 r0 r1; end
SubOnce == Scenario(<<Op3("sub", 0, 0, 1), InstrEnd>>, NoProphets, EmptyTree)

\* mov r0 1; neq r2 r0 r1; cjmp r2 7; mov r0 5; end
BranchTaken ==
  Scenario(<<Mov(0, 1), Op3("neq", 2, 0, 1), I2("cjmp", <<R(2), N(7)>>), Mov(0, 5),
             InstrEnd>>, NoProphets, EmptyTree)

\* jmp 4; mov r0 r1; ret; mov r9 12; mstore [r9,-2] r9; call 2; end
CallRet ==
  Scenario(<<I2("jmp", <<N(4)>>), MovReg(0, R(1)), I1("ret", <<>>), Mov(FP_REG_INDEX, 12),
             Mstore(R(FP_REG_INDEX), ORDER - 2, FP_REG_INDEX), I2("call", <<N(2)>>),
             InstrEnd>>,
           NoProphets, EmptyTree)

\* jmp 7; mul r4 r0 10; add r4 r4 r1; mov r0 r4; ret; mov r0 8; mov r1 2;
\* mov r8 0x100010000; add r7 r8 -2; mov r6 0x100000000; mstore r7 r6; call 2;
\* add r0 r0 r1; end
CallTest ==
  Scenario(<<I2("jmp", <<N(7)>>), I2("mul", <<R(4), R(0), N(10)>>), Op3("add", 4, 4, 1),
             MovReg(0, R(4)), I1("ret", <<>>), Mov(0, 8), Mov(1, 2), Mov(8, V_U32 + 4),
             I2("add", <<R(7), R(8), N(ORDER - 2)>>), Mov(6, V_U32),
             I1("mstore", <<R(7), R(6)>>), I2("call", <<N(2)>>), Op3("add", 0, 0, 1),
             InstrEnd>>,
           NoProphets, EmptyTree)

\* mov r1 psp (prophet writing two values); mload r0 [r1,0]; mload r2 [r1,1]; end
ProphetOutputs(ret) ==
  Scenario(<<MovReg(1, PSP), Mload(0, R(1), 0), Mload(2, R(1), 1), InstrEnd>>,
           Put(NoProphets, 0, Prophet(<<Input(1, FALSE)>>, ret, 2, U32_MAX, HP_START_ADDR + 1)), EmptyTree)

\* mov r1 5; mov r2 5; mstore [r1,0] r0; mov r0 psp (prophet reading through
\* r1 and r2); end
ProphetRefInputs ==
  Scenario(<<Mov(1, 5), Mov(2, 5), Mstore(R(1), 0, 0), MovReg(0, PSP), InstrEnd>>,
           Put(NoProphets, 6, Prophet(<<Input(1, TRUE), Input(1, TRUE)>>, "Multiple", 1,
                                      3, HP_START_ADDR)), EmptyTree)

\* mov r9 8; mstore [r9,-3] r0; mov r0 psp (prophet with four inputs, the
\* fourth from the frame); mstore [r0,0] r1; end
ProphetFrameInput ==
  Scenario(<<Mov(FP_REG_INDEX, 8), Mstore(R(FP_REG_INDEX), ORDER - 3, 0), MovReg(0, PSP),
             Mstore(R(0), 0, 1), InstrEnd>>,
           Put(NoProphets, 4, Prophet(<<Input(3, FALSE), Input(1, FALSE)>>, "Multiple", 1,
                                      1, HP_START_ADDR)), EmptyTree)

\* mov r0 n; mov r1 1; mov r2 1; mov r3 0; eq r4 r0 r3; cjmp r4 19; add r4 r1 r2;
\* mov r1 r2; mov r2 r4; mov r4 1; add r3 r3 r4; jmp 8; end
FibonacciLoop(n) ==
  Scenario(<<Mov(0, n), Mov(1, 1), Mov(2, 1), Mov(3, 0), Op3("eq", 4, 0, 3),
             I2("cjmp", <<R(4), N(19)>>), Op3("add", 4, 1, 2), MovReg(1, R(2)),
             MovReg(2, R(4)), Mov(4, 1), Op3("add", 3, 3, 4), I2("jmp", <<N(8)>>),
             InstrEnd>>, NoProphets, EmptyTree)

Fibonacci == FibonacciLoop(8)

\* jmp 1; end: a jump into an immediate slot
JumpIntoImmediate == Scenario(<<I2("jmp", <<N(1)>>), InstrEnd>>, NoProphets, EmptyTree)

\* mov r1 5; end, with a prophet hosted at the end instruction
ProphetAtEnd ==
  Scenario(<<Mov(1, 5), InstrEnd>>,
           Put(NoProphets, 2, Prophet(<<Input(1, FALSE)>>, "Multiple", 1, 3, HP_START_ADDR)),
           EmptyTree)

\* mov r0 6; not r1 r0; add r2 r0 r0; mul r3 r0 2; eq r4 r0 r1; neq r5 r0 r1;
\* and r6 r0 r3; or r7 r0 r3; xor r1 r0 r3; gte r2 r0 r1; end
RegisterOpsAll ==
  Scenario(<<Mov(0, 6), I1("not", <<R(1), R(0)>>), Op3("add", 2, 0, 0),
             I2("mul", <<R(3), R(0), N(2)>>), Op3("eq", 4, 0, 1), Op3("neq", 5, 0, 1),
             Op3("and", 6, 0, 3), Op3("or", 7, 0, 3), Op3("xor", 1, 0, 3),
             Op3("gte", 2, 0, 1), InstrEnd>>, NoProphets, EmptyTree)

\* call 2; end, entered with the frame pointer at 0
CallFromZeroFrame == Scenario(<<I2("call", <<N(2)>>), InstrEnd>>, NoProphets, EmptyTree)

\* mov r0 1; mstore [r0,-2] r0; mstore [r0,-3] r0; ret; end: the cells at
\* p - 1 and p - 2 are written, the frame pointer is 0
RetFromZeroFrame ==
  Scenario(<<Mov(0, 1), Mstore(R(0), ORDER - 2, 0), Mstore(R(0), ORDER - 3, 0),
             I1("ret", <<>>), InstrEnd>>, NoProphets, EmptyTree)

\* mov r1 (p - 2^32 - 10); mstore [r1,0] r0; mload r2 [r1,0]; end: a load from
\* the poseidon region
PoseidonRegionLoad ==
  Scenario(<<Mov(1, ORDER - V_U32 - 10), Mstore(R(1), 0, 0), Mload(2, R(1), 0), InstrEnd>>,
           NoProphets, EmptyTree)

\* end
EndOnly == Scenario(<<InstrEnd>>, NoProphets, EmptyTree)

\* mov r0 2; cjmp r0 6; mov r1 5; end: a flag that is neither 0 nor 1
BranchOnTwo ==
  Scenario(<<Mov(0, 2), I2("cjmp", <<R(0), N(6)>>), Mov(1, 5), InstrEnd>>,
           NoProphets, EmptyTree)

\* cjmp r0 4; mov r1 5; end: the flag is 0
BranchNotTaken ==
  Scenario(<<I2("cjmp", <<R(0), N(4)>>), Mov(1, 5), InstrEnd>>, NoProphets, EmptyTree)

\* jmp 3; end: a jump to the address after the last line
JumpPastEnd == Scenario(<<I2("jmp", <<N(3)>>), InstrEnd>>, NoProphets, EmptyTree)

Scenarios ==
  {MemoryRoundTrip, RangeFault, WriteOnceTwice, WriteOnceTwiceViaReg,
   StorageOps(EmptyTree), StorageOps(SeededTree), PoseidonOnce, SubOnce, BranchTaken,
   CallRet, ProphetOutputs("Multiple"), ProphetOutputs("Single"), ProphetOutputs("Err"),
   ProphetRefInputs, ProphetFrameInput, JumpIntoImmediate, EndOnly, BranchOnTwo,
   BranchNotTaken, JumpPastEnd, CallTest, Fibonacci, StorageThenFault,
   ProphetAtEnd, RegisterOpsAll, CallFromZeroFrame, RetFromZeroFrame,
   PoseidonRegionLoad}

\* The generated programs: mov r0 a; mov r1 b; up to MaxProgLen instructions
\* of the pool; end.
PreludeValues ==
  {<<0, 0>>, <<8, 8>>, <<8, 2>>, <<V_U32, 0>>, <<NEG_ONE, U32_MAX>>,
   <<1, PSP_START_ADDR>>}

Pool ==
  {MovReg(0, R(1)), I1("not", <<R(0), R(1)>>),
   Op3("add", 0, 0, 1), Op3("mul", 0, 0, 1), Op3("eq", 2, 0, 1),
   Op3("and", 0, 0, 1), Op3("or", 0, 0, 1), Op3("xor", 0, 0, 1),
   Op3("gte", 2, 0, 1), I1("assert", <<R(0), R(1)>>), I1("range", <<R(0)>>),
   Mstore(R(1), 0, 0), Mload(2, R(1), 0)}

Generated ==
  {Scenario(<<Mov(0, v[1]), Mov(1, v[2])>> \o body \o <<InstrEnd>>, NoProphets, EmptyTree) :
     v \in PreludeValues, body \in SeqsUpTo(Pool, MaxProgLen)}

\* ---------------------------------------------------------------- Init
\* Process::new() at the entry of execute on a scenario; the caller has pushed
\* the contract address on ctx_registers_stack.
ProcessNew(sc) ==
  /\ program = sc.program
  /\ prophets = sc.prophets
  /\ account_tree = sc.account_tree
  /\ instructions = EmptyMap
  /\ status = "decode"
  /\ fault = "none"
  /\ clk = 0
  /\ pc = 0
  /\ registers = [r \in Regs |-> 0]
  /\ psp = PSP_START_ADDR
  /\ hp = HP_START_ADDR
  /\ ctx_registers_stack = <<0>>
  /\ memory = EmptyMap
  /\ storage = EmptyMap
  /\ storage_log = <<>>
  /\ trace = EmptyTrace
  /\ process_block_calls = <<>>
  /\ first_run = [done |-> FALSE, account_tree |-> account_tree, trace |-> EmptyTrace,
                  status |-> "none", fault |-> "none"]

IdleCodec == [stage |-> "idle"]

Init ==
  /\ \E sc \in Scenarios \cup Generated : ProcessNew(sc)
  /\ overflow_checks \in BOOLEAN
  /\ runner = new_from_instruction_vec(<<>>, EmptyMap)
  /\ codec = IdleCodec

Next ==
  \/ Decode
  \/ FetchPanic
  \/ ExecMovNot
  \/ ExecEqNeq
  \/ ExecAssert
  \/ ExecCjmp
  \/ ExecJmp
  \/ ExecAddMul
  \/ ExecCall
  \/ ExecRet
  \/ ExecMstore
  \/ ExecMload
  \/ ExecRange
  \/ ExecBitwise
  \/ ExecGte
  \/ ExecSstore
  \/ ExecSload
  \/ ExecPoseidon
  \/ ExecEnd
  \/ GenTables

Spec == Init /\ [][Next]_vars

RunsFibonacci == program = Fibonacci.program

\* Process::execute is one sequential loop: while the process has not stopped
\* its next step is taken. The fairness is stated for the run of the iterative
\* Fibonacci program.
SpecLive == Spec /\ WF_vars(RunsFibonacci /\ Next)

\* A second run of execute: a fresh Process::new() and a fresh trace on the
\* same program, prophets and account tree, once the first run has ended.
Rerun ==
  /\ status \in {"ok", "fault", "panic"}
  /\ ~first_run.done
  /\ first_run' = [first_run EXCEPT !.done = TRUE, !.trace = trace, !.status = status,
                                    !.fault = fault]
  /\ account_tree' = first_run.account_tree
  /\ instructions' = EmptyMap
  /\ status' = "decode"
  /\ fault' = "none"
  /\ clk' = 0
  /\ pc' = 0
  /\ registers' = [r \in Regs |-> 0]
  /\ psp' = PSP_START_ADDR
  /\ hp' = HP_START_ADDR
  /\ memory' = EmptyMap
  /\ storage' = EmptyMap
  /\ storage_log' = <<>>
  /\ trace' = EmptyTrace
  /\ process_block_calls' = <<>>
  /\ UNCHANGED <<program, prophets, overflow_checks, ctx_registers_stack, runner, codec>>

NextTwice ==
  \/ Next
  \/ Rerun

SpecTwice == Init /\ [][NextTwice]_vars

\* ------------------------------------------------------ runner programs
Imm(v) == ImmediateOperand(v)
Reg(r) == RegisterOperand(r)
BI(opcode, op0, op1, dst) == BinaryInstruction(opcode, op0, op1, dst, NoProphet)
RMov(r, v) == BI("mov", NoOperand, Imm(v), Reg(r))
REnd == BI("end", NoOperand, NoOperand, NoOperand)

RunnerProphet(ins, ret, nout, seed, new_hp) ==
  [inputs |-> ins, ret |-> ret, nout |-> nout, seed |-> seed, new_hp |-> new_hp]

RunnerCase(vec, mem) == [vec |-> vec, memory |-> mem]

\* mov r8 6; call 5; end; mov r0 7; ret, from a memory that holds a saved
\* frame pointer (and from an empty one).
RunnerCallRet(mem) ==
  RunnerCase(<<RMov(8, 6), BI("call", NoOperand, Imm(5), NoOperand), REnd, RMov(0, 7),
               BI("ret", NoOperand, NoOperand, NoOperand)>>, mem)

\* mov r0 flag; cjmp r0 5; mov r1 5; end
RunnerBranch(flag) ==
  RunnerCase(<<RMov(0, flag), BI("cjmp", Reg(0), Imm(5), NoOperand), RMov(1, 5), REnd>>,
             EmptyMap)

\* jmp target; end
RunnerJump(target) == RunnerCase(<<BI("jmp", NoOperand, Imm(target), NoOperand), REnd>>, EmptyMap)

\* mov r1 3; mov r0 psp with a prophet; end
RunnerProphetCase(ret) ==
  RunnerCase(<<RMov(1, 3),
               BinaryInstruction("mov", NoOperand, SpecialReg("psp"), Reg(0),
                                 RunnerProphet(<<[stored_in |-> "reg", anchor |-> 1]>>,
                                               ret, 2, 1, 9)),
               REnd>>, EmptyMap)

\* mov r1 4; mstore [r1,1] r0; mload r2 [r1,1]; end
RunnerMemoryCase(mem) ==
  RunnerCase(<<RMov(1, 4), BI("mstore", Reg(0), RegisterWithOffset(1, 1), NoOperand),
               BI("mload", NoOperand, RegisterWithOffset(1, 1), Reg(2)), REnd>>, mem)

\* mov r0 a; mov r1 b; one two-operand or one-operand instruction; end
RunnerPool ==
  {BI(op, Reg(0), Reg(1), Reg(2)) : op \in {"add", "mul", "eq", "neq", "and", "or", "xor", "gte"}}
    \cup {BI("assert", Reg(0), Reg(1), NoOperand), BI("rc", NoOperand, Reg(0), NoOperand),
          BI("not", NoOperand, Reg(0), Reg(2)), BI("mov", NoOperand, Reg(0), Imm(1)),
          BI("mov", NoOperand, NoOperand, Reg(2)), BI("mov", NoOperand, SpecialReg("pc"), Reg(2))}

RunnerGenerated ==
  {RunnerCase(<<RMov(0, v[1]), RMov(1, v[2]), i, REnd>>, EmptyMap) :
     v \in PreludeValues, i \in RunnerPool}

RunnerCases ==
  {RunnerCallRet(EmptyMap), RunnerCallRet(Put(EmptyMap, 4, 9)),
   RunnerBranch(0), RunnerBranch(1), RunnerBranch(2),
   RunnerJump(1), RunnerJump(2), RunnerJump(3),
   RunnerProphetCase("Multiple"), RunnerProphetCase("Single"), RunnerProphetCase("Err"),
   RunnerMemoryCase(EmptyMap), RunnerMemoryCase(Put(EmptyMap, 5, 3))}
    \cup RunnerGenerated

\* OlaRunner::new_from_instruction_vec on a program; no Process runs.
InitRunner ==
  /\ ProcessNew(EndOnly)
  /\ overflow_checks = FALSE
  /\ \E rc \in RunnerCases : runner = new_from_instruction_vec(rc.vec, rc.memory)
  /\ codec = IdleCodec

NextRunner ==
  \/ RunAfterEnded
  \/ InstructionNotFound
  \/ RunInstruction

SpecRunner == InitRunner /\ [][NextRunner]_vars

\* ============================================================== literals
\* A string is the sequence of its characters. i128 is scaled with the field:
\* twice the width of u64.
I128_MIN == -((U64 * U64) \div 2)
I128_MAX == (U64 * U64) \div 2 - 1

\* i128 arithmetic in a build without overflow checks wraps.
WrapI128(x) == ((x - I128_MIN) % (U64 * U64)) + I128_MIN

HexChars == <<"0", "1", "2", "3", "4", "5", "6", "7", "8", "9", "a", "b", "c", "d", "e", "f">>
UpperHexChars == <<"A", "B", "C", "D", "E", "F">>

\* char::to_digit(radix): -1 stands for None.
to_digit(c, radix) ==
  LET d == IF \E i \in 1 .. 16 : HexChars[i] = c
             THEN (CHOOSE i \in 1 .. 16 : HexChars[i] = c) - 1
           ELSE IF \E i \in 1 .. 6 : UpperHexChars[i] = c
             THEN (CHOOSE i \in 1 .. 6 : UpperHexChars[i] = c) + 9
           ELSE -1
  IN IF d < radix THEN d ELSE -1

\* The digit loop of from_str_radix: -1 on an invalid digit or when the
\* magnitude passes limit.
RECURSIVE ParseDigits(_, _, _, _)
ParseDigits(chars, radix, acc, limit) ==
  IF chars = <<>> THEN acc
  ELSE IF to_digit(Head(chars), radix) < 0 \/ acc * radix + to_digit(Head(chars), radix) > limit
    THEN -1
  ELSE ParseDigits(Tail(chars), radix, acc * radix + to_digit(Head(chars), radix), limit)

ParseResult(ok, v) == [ok |-> ok, v |-> IF ok THEN v ELSE 0]

\* u64::from_str_radix: an optional "+", then at least one digit.
u64_from_str_radix(src, radix) ==
  LET digits == IF src # <<>> /\ Head(src) = "+" THEN Tail(src) ELSE src
  IN IF digits = <<>> THEN ParseResult(FALSE, 0)
     ELSE ParseResult(ParseDigits(digits, radix, 0, U64 - 1) >= 0,
                      ParseDigits(digits, radix, 0, U64 - 1))

\* i128::from_str_radix: an optional "+" or "-", then at least one digit.
i128_from_str_radix(src, radix) ==
  IF src = <<>> \/ src \in {<<"+">>, <<"-">>} THEN ParseResult(FALSE, 0)
  ELSE IF Head(src) = "-"
    THEN ParseResult(ParseDigits(Tail(src), radix, 0, -I128_MIN) >= 0,
                     -ParseDigits(Tail(src), radix, 0, -I128_MIN))
  ELSE IF Head(src) = "+"
    THEN ParseResult(ParseDigits(Tail(src), radix, 0, I128_MAX) >= 0,
                     ParseDigits(Tail(src), radix, 0, I128_MAX))
  ELSE ParseResult(ParseDigits(src, radix, 0, I128_MAX) >= 0,
                   ParseDigits(src, radix, 0, I128_MAX))

starts_with_0x(s) == Len(s) >= 2 /\ s[1] = "0" /\ s[2] = "x"

\* str::trim_start_matches("0x"): every leading repetition is removed.
RECURSIVE trim_start_matches_0x(_)
trim_start_matches_0x(s) ==
  IF starts_with_0x(s) THEN trim_start_matches_0x(SubSeq(s, 3, Len(s))) ELSE s

\* format!("{:#x}", value)
RECURSIVE LowerHex(_)
LowerHex(value) ==
  IF value < 16 THEN <<HexChars[value + 1]>>
  ELSE Append(LowerHex(value \div 16), HexChars[(value % 16) + 1])

FormatHex(value) == <<"0", "x">> \o LowerHex(value)

ImmediateOk(value) == [e |-> "none", hex |-> FormatHex(value)]
ImmediateErr(e) == [e |-> e, hex |-> <<>>]

\* ImmediateValue::from_str, 0x branch
ImmediateFromHex(parsed) ==
  IF ~parsed.ok THEN ImmediateErr("Immediate is not a valid number")
  ELSE IF parsed.v >= ORDER THEN ImmediateErr("Immediate overflow")
  ELSE ImmediateOk(parsed.v)

\* ImmediateValue::from_str, decimal branch after the i128 parse: value * -1
\* and value.abs() overflow for i128::MIN, and signed_order - abs then wraps;
\* `as u64` keeps the low bits.
ImmediateFromI128(value, checks) ==
  IF value = I128_MIN /\ checks THEN ImmediateErr("panic: attempt to multiply with overflow")
  ELSE IF value >= ORDER \/ WrapI128(-value) >= ORDER THEN ImmediateErr("Immediate overflow")
  ELSE IF value < 0 THEN ImmediateOk(WrapI128(ORDER - WrapI128(-value)) % U64)
  ELSE ImmediateOk(value % U64)

ImmediateFromDecimal(parsed, checks) ==
  IF ~parsed.ok THEN ImmediateErr("Immediate is not a valid number")
  ELSE ImmediateFromI128(parsed.v, checks)

\* ImmediateValue::from_str
ImmediateValue_parse(s, checks) ==
  IF starts_with_0x(s)
  THEN ImmediateFromHex(u64_from_str_radix(trim_start_matches_0x(s), 16))
  ELSE ImmediateFromDecimal(i128_from_str_radix(s, 10), checks)

\* ImmediateValue::to_u64
to_u64(hex) == u64_from_str_radix(trim_start_matches_0x(hex), 16)

\* [[:digit:]]+ and -?[[:digit:]]+
IsDigits(chars) == chars # <<>> /\ \A i \in 1 .. Len(chars) : to_digit(chars[i], 10) >= 0

IsSignedDigits(chars) ==
  IF chars # <<>> /\ Head(chars) = "-" THEN IsDigits(Tail(chars)) ELSE IsDigits(chars)

\* ^(r[0-8])$
MatchesReg(chars) == Len(chars) = 2 /\ chars[1] = "r" /\ to_digit(chars[2], 9) >= 0

\* ^\[(r[0-8]),(-?[[:digit:]]+)\]$
MatchesRegOffset(chars) ==
  /\ Len(chars) >= 6
  /\ chars[1] = "["
  /\ MatchesReg(SubSeq(chars, 2, 3))
  /\ chars[4] = ","
  /\ chars[Len(chars)] = "]"
  /\ IsSignedDigits(SubSeq(chars, 5, Len(chars) - 1))

\* OlaRegister::from_str on r0 .. r8
OlaRegister_from_str(chars) == to_digit(chars[2], 9)

\* OlaSpecialRegister::from_str
SpecialRegisterNames == {<<"p", "c">>, <<"p", "s", "p">>}

OperandOk(op) == [e |-> "none", op |-> op]
OperandErr(e) == [e |-> e, op |-> NoOperand]

OffsetOperand(register, imm) ==
  IF imm.e # "none" THEN OperandErr(imm.e)
  ELSE OperandOk(RegisterWithOffset(register, to_u64(imm.hex).v))

ImmediateParsed(imm) ==
  IF imm.e # "none" THEN OperandErr(imm.e) ELSE OperandOk(ImmediateOperand(to_u64(imm.hex).v))

\* OlaOperand::from_str: the patterns are tried in this order.
OlaOperand_from_str(s, checks) ==
  IF MatchesRegOffset(s)
    THEN OffsetOperand(OlaRegister_from_str(SubSeq(s, 2, 3)),
                       ImmediateValue_parse(SubSeq(s, 5, Len(s) - 1), checks))
  ELSE IF MatchesReg(s) THEN OperandOk(RegisterOperand(OlaRegister_from_str(s)))
  ELSE IF IsSignedDigits(s) THEN ImmediateParsed(ImmediateValue_parse(s, checks))
  ELSE IF s \in SpecialRegisterNames THEN OperandOk(SpecialReg(s))
  ELSE OperandErr("invalid operand")

\* ============================================================ assembler
\* OlaAsmOperand: the operands of a relocated assembly instruction. An
\* ImmediateValue is held as the u64 its hex text denotes.
AsmImmediateOperand(v) == [k |-> "imm", v |-> v]
AsmRegisterOperand(r) == [k |-> "reg", r |-> r]
AsmRegisterWithOffset(r, off) == [k |-> "regoff", r |-> r, off |-> off]
AsmRegisterWithFactoredRegOffset(r, offset_register, factor) ==
  [k |-> "regfactored", r |-> r, offset_register |-> offset_register, factor |-> factor]
AsmLabel(value) == [k |-> "label", value |-> value]
AsmIdentifier(value) == [k |-> "identifier", value |-> value]
AsmSpecialReg(sr) == [k |-> "special", sr |-> sr]

OlaAsmInstruction(opcode, op0, op1, dst) ==
  [opcode |-> opcode, op0 |-> op0, op1 |-> op1, dst |-> dst]

\* OlaOperand::RegisterWithFactor
RegisterWithFactor(r, factor) == [k |-> "regfactor", r |-> r, factor |-> factor]

\* The relocation result: label -> host pc for jumps, identifier -> host pc
\* for calls.
mapper_label_jmp == Put(Put(Put(EmptyMap, ".LBL0_0", 0), ".LBL0_1", 3), "loop", 6)
mapper_label_call == Put(Put(Put(EmptyMap, "main", 0), "sqrt", 5), "loop", 9)

\* ImmediateValue::from_str on the decimal text of n.
ImmediateValue_from_str(n) ==
  [e |-> ImmediateFromI128(n, FALSE).e, v |-> to_u64(ImmediateFromI128(n, FALSE).hex).v]

Resolved(mapper, value, what) ==
  IF value \in DOMAIN mapper
  THEN [e |-> "none", op |-> ImmediateOperand(ImmediateValue_from_str(mapper[value]).v)]
  ELSE [e |-> what, op |-> NoOperand]

\* Mutant of operand_asm_to_binary: a name is looked up in both maps.
operand_asm_to_binary_either_map(asm_op) ==
  CASE asm_op.k = "imm" -> [e |-> "none", op |-> ImmediateOperand(asm_op.v)]
    [] asm_op.k = "reg" -> [e |-> "none", op |-> RegisterOperand(asm_op.r)]
    [] asm_op.k \in {"label", "identifier"} ->
         IF asm_op.value \in DOMAIN mapper_label_jmp
         THEN Resolved(mapper_label_jmp, asm_op.value, "invalid label")
         ELSE Resolved(mapper_label_call, asm_op.value, "invalid identifier")
    [] OTHER -> [e |-> "none", op |-> NoOperand]

\* operand_asm_to_binary: immediates and registers are kept, a label or an
\* identifier becomes the immediate of its host, every other kind gives None.
operand_asm_to_binary(asm_op) ==
  CASE asm_op.k = "imm" -> [e |-> "none", op |-> ImmediateOperand(asm_op.v)]
    [] asm_op.k = "reg" -> [e |-> "none", op |-> RegisterOperand(asm_op.r)]
    [] asm_op.k = "label" -> Resolved(mapper_label_jmp, asm_op.value, "invalid label")
    [] asm_op.k = "identifier" ->
         Resolved(mapper_label_call, asm_op.value, "invalid identifier")
    [] OTHER -> [e |-> "none", op |-> NoOperand]

is_adjusted_operand(asm) == asm.opcode \in {"mload", "mstore"}

MemAnchor(o) ==
  IF o.k \in {"regoff", "regfactored"} THEN [e |-> "none", op |-> RegisterOperand(o.r)]
  ELSE [e |-> "panic: parse anchor reg error", op |-> NoOperand]

MemOffset(o) ==
  CASE o.k = "regoff" -> [e |-> "none", op |-> ImmediateOperand(o.off)]
    [] o.k = "regfactored" ->
         [e |-> "none", op |-> RegisterWithFactor(o.offset_register, o.factor)]
    [] OTHER -> [e |-> "panic: parse offset error", op |-> NoOperand]

MemDst(o) ==
  IF o.k = "reg" THEN [e |-> "none", op |-> RegisterOperand(o.r)]
  ELSE [e |-> "panic: parse dst reg error", op |-> NoOperand]

FirstError(a, b, c) ==
  IF a.e # "none" THEN a.e ELSE IF b.e # "none" THEN b.e ELSE c.e

Converted(asm, op0, op1, dst) ==
  [e |-> FirstError(op0, op1, dst),
   instruction |-> BinaryInstruction(asm.opcode, op0.op, op1.op, dst.op, NoProphet)]

\* Mutant of handle_mem_operand: MSTORE is read with the operand positions
\* of MLOAD.
handle_mem_operand_as_mload(asm) ==
  Converted(asm, MemAnchor(asm.op1), MemOffset(asm.op1), MemDst(asm.dst))

\* handle_mem_operand: (anchor register, offset, value register)
handle_mem_operand(asm) ==
  IF asm.opcode = "mload"
  THEN Converted(asm, MemAnchor(asm.op1), MemOffset(asm.op1), MemDst(asm.dst))
  ELSE Converted(asm, MemAnchor(asm.op0), MemOffset(asm.op0), MemDst(asm.op1))

\* The body of the loop of encode_to_binary for one instruction.
encode_to_binary(asm) ==
  IF is_adjusted_operand(asm) THEN handle_mem_operand(asm)
  ELSE Converted(asm, operand_asm_to_binary(asm.op0), operand_asm_to_binary(asm.op1),
                 operand_asm_to_binary(asm.dst))

\* The opcode element is held as the set of its one bits. Bit 62 flags an
\* immediate op1; three one-hot register fields of nine bits follow; the low
\* bits are the one-hot opcode.
FieldBitPosition == [imm_flag |-> 62, op0 |-> 53, op1 |-> 44, dst |-> 35]

OpcodeBit ==
  [add |-> 34, mul |-> 33, eq |-> 32, assert |-> 31, mov |-> 30, jmp |-> 29, cjmp |-> 28,
   call |-> 27, ret |-> 26, mload |-> 25, mstore |-> 24, end |-> 23]

RegisterBits(base, o) == IF o.k \in {"reg", "regfactor"} THEN {base + o.r} ELSE {}

ImmediateOf(o) ==
  CASE o.k = "imm" -> <<o.v>>
    [] o.k = "regfactor" -> <<o.factor>>
    [] OTHER -> <<>>

\* BinaryInstruction::encode: the opcode element, then the immediate element
\* when op1 carries one.
BinaryEncode(i) ==
  <<{OpcodeBit[i.opcode]}
      \cup RegisterBits(FieldBitPosition.op0, i.op0)
      \cup RegisterBits(FieldBitPosition.op1, i.op1)
      \cup RegisterBits(FieldBitPosition.dst, i.dst)
      \cup (IF ImmediateOf(i.op1) # <<>> THEN {FieldBitPosition.imm_flag} ELSE {})>>
    \o ImmediateOf(i.op1)

DecodeRegister(bits, base) ==
  IF \E r \in 0 .. 8 : base + r \in bits
  THEN RegisterOperand(CHOOSE r \in 0 .. 8 : base + r \in bits)
  ELSE NoOperand

DecodeOp1(bits, elements, reg) ==
  IF FieldBitPosition.imm_flag \notin bits THEN reg
  ELSE IF reg = NoOperand THEN ImmediateOperand(elements[2])
  ELSE RegisterWithFactor(reg.r, elements[2])

\* BinaryInstruction::decode
BinaryDecode(elements) ==
  BinaryInstruction(CHOOSE o \in DOMAIN OpcodeBit : OpcodeBit[o] \in elements[1],
                    DecodeRegister(elements[1], FieldBitPosition.op0),
                    DecodeOp1(elements[1], elements,
                              DecodeRegister(elements[1], FieldBitPosition.op1)),
                    DecodeRegister(elements[1], FieldBitPosition.dst),
                    NoProphet)

\* --------------------------------------------- assembling one instruction
Codec(stage, asm, binary, elements, decoded, error) ==
  [stage |-> stage, asm |-> asm, binary |-> binary, elements |-> elements,
   decoded |-> decoded, error |-> error]

NoInstruction == BinaryInstruction("none", NoOperand, NoOperand, NoOperand, NoProphet)

\* encode_to_binary on the instruction
EncodeToBinary ==
  /\ codec.stage = "asm"
  /\ LET r == encode_to_binary(codec.asm)
     IN codec' = IF r.e # "none" THEN [codec EXCEPT !.stage = "error", !.error = r.e]
                 ELSE [codec EXCEPT !.stage = "binary", !.binary = r.instruction]
  /\ UNCHANGED <<process_state, runner>>

EncodeElements ==
  /\ codec.stage = "binary"
  /\ codec' = [codec EXCEPT !.stage = "encoded", !.elements = BinaryEncode(codec.binary)]
  /\ UNCHANGED <<process_state, runner>>

DecodeElements ==
  /\ codec.stage = "encoded"
  /\ codec' = [codec EXCEPT !.stage = "decoded", !.decoded = BinaryDecode(codec.elements)]
  /\ UNCHANGED <<process_state, runner>>

\* The assembly instructions the codec is run on.
CodecRegisters == {0, 1, 8}
CodecImmediates == {0, 1, ORDER - 2}
AsmRegisters == {AsmRegisterOperand(r) : r \in CodecRegisters}
AsmValues == AsmRegisters \cup {AsmImmediateOperand(v) : v \in CodecImmediates}
AsmMemOperands ==
  {AsmRegisterWithOffset(r, off) : r \in {8}, off \in CodecImmediates}
    \cup {AsmRegisterWithFactoredRegOffset(8, r, 2) : r \in {0, 1}}

ValidAsm ==
  {OlaAsmInstruction("mov", NoOperand, src, dst) :
     src \in AsmValues \cup {AsmSpecialReg("psp")}, dst \in AsmRegisters}
  \cup {OlaAsmInstruction(opc, a, b, dst) :
          opc \in {"add", "mul"}, a \in {AsmRegisterOperand(0)}, b \in AsmValues,
          dst \in AsmRegisters}
  \cup {OlaAsmInstruction("assert", a, b, NoOperand) : a \in AsmRegisters, b \in AsmValues}
  \cup {OlaAsmInstruction("jmp", NoOperand, t, NoOperand) :
          t \in AsmRegisters \cup {AsmLabel(".LBL0_0"), AsmLabel(".LBL0_1"), AsmLabel("loop")}}
  \cup {OlaAsmInstruction("cjmp", a, AsmLabel(".LBL0_1"), NoOperand) : a \in AsmRegisters}
  \cup {OlaAsmInstruction("call", NoOperand, AsmIdentifier(f), NoOperand) :
          f \in {"main", "sqrt", "loop"}}
  \cup {OlaAsmInstruction("ret", NoOperand, NoOperand, NoOperand),
        OlaAsmInstruction("end", NoOperand, NoOperand, NoOperand)}
  \cup {OlaAsmInstruction("mload", NoOperand, m, dst) :
          m \in AsmMemOperands, dst \in AsmRegisters}
  \cup {OlaAsmInstruction("mstore", m, v, NoOperand) :
          m \in AsmMemOperands, v \in AsmRegisters}

\* Instructions the relocation maps do not resolve.
UnresolvedAsm ==
  {OlaAsmInstruction("jmp", NoOperand, AsmLabel(".LBL9_9"), NoOperand),
   OlaAsmInstruction("jmp", NoOperand, AsmLabel("main"), NoOperand),
   OlaAsmInstruction("cjmp", AsmRegisterOperand(0), AsmLabel("sqrt"), NoOperand),
   OlaAsmInstruction("call", NoOperand, AsmIdentifier("missing"), NoOperand),
   OlaAsmInstruction("call", NoOperand, AsmIdentifier(".LBL0_1"), NoOperand)}

InitCodec ==
  /\ ProcessNew(EndOnly)
  /\ overflow_checks = FALSE
  /\ runner = new_from_instruction_vec(<<>>, EmptyMap)
  /\ \E asm \in ValidAsm \cup UnresolvedAsm :
       codec = Codec("asm", asm, NoInstruction, <<>>, NoInstruction, "none")

NextCodec ==
  \/ EncodeToBinary
  \/ EncodeElements
  \/ DecodeElements

SpecCodec == InitCodec /\ [][NextCodec]_vars

\* ------------------------------------------------- parsing one literal
RECURSIVE DecimalDigits(_)
DecimalDigits(n) ==
  IF n < 10 THEN <<HexChars[n + 1]>>
  ELSE Append(DecimalDigits(n \div 10), HexChars[(n % 10) + 1])

\* The decimal text of an integer.
DecimalText(v) == IF v < 0 THEN <<"-">> \o DecimalDigits(-v) ELSE DecimalDigits(v)

\* A text with what it was written to be: a decimal or hexadecimal literal of
\* a value, a register, a register with a decimal offset, a special register
\* name, or none of these.
OperandLiteral(text, form, value, reg) ==
  [text |-> text, form |-> form, value |-> value, reg |-> reg]

Literal(text, form, value) == OperandLiteral(text, form, value, 0)

RegText(n) == <<"r">> \o DecimalDigits(n)

RegOffsetText(n, k) == <<"[">> \o RegText(n) \o <<",">> \o DecimalText(k) \o <<"]">>

OffsetValues == {0, 1, -1, -2, ORDER - 1, 1 - ORDER, ORDER, -ORDER, I128_MIN}

OperandTexts ==
  {OperandLiteral(RegText(n), "reg", 0, n) : n \in 0 .. 8}
    \cup {OperandLiteral(RegOffsetText(n, k), "regoff", k, n) : n \in {0, 8}, k \in OffsetValues}
    \cup {OperandLiteral(t, "special", 0, 0) : t \in SpecialRegisterNames}
    \cup {Literal(t, "other", 0) :
            t \in {RegText(9), RegText(10), <<"r">>, <<"R", "1">>, <<"r", "1", " ">>,
                   <<"[", "r", "9", ",", "1", "]">>, <<"[", "r", "1", ",", "]">>,
                   <<"[", "r", "1", ",", "1">>, <<"[", "r", "1", ",", " ", "1", "]">>,
                   <<"[", "r", "1", ",", "0", "x", "1", "]">>,
                   <<"[", "p", "s", "p", ",", "1", "]">>, <<"+", "1">>,
                   <<"p", "s">>, <<"P", "S", "P">>, <<"f", "p">>}}

DecimalValues ==
  {0, 1, 7, 10, ORDER - 1, ORDER, ORDER + 1, U64 - 1, U64, I128_MAX, I128_MAX + 1,
   -1, -2, -10, 1 - ORDER, -ORDER, -ORDER - 1, -U64, I128_MIN + 1, I128_MIN, I128_MIN - 1}

HexValues == {0, 1, 10, 15, 16, ORDER - 1, ORDER, ORDER + 1, U64 - 1, U64, U64 + 1}

\* Strings that are no literal.
OtherTexts ==
  {<<>>, <<"-">>, <<"0", "x">>, <<"x", "1">>, <<"1", "x">>, <<"0", "X", "1">>,
   <<"-", "0", "x", "1">>, <<"1", " ">>, <<"1", "-">>, <<"-", "-", "1">>, <<"g">>}

Literals ==
  {Literal(DecimalText(v), "dec", v) : v \in DecimalValues}
    \cup {Literal(FormatHex(v), "hex", v) : v \in HexValues}
    \cup {Literal(<<"0", "x", "F", "0">>, "hex", 240), Literal(<<"0", "x", "0", "1">>, "hex", 1),
          Literal(<<"0", "0", "7">>, "dec", 7), Literal(<<"-", "0">>, "dec", 0)}
    \cup {Literal(t, "other", 0) : t \in OtherTexts}
    \cup OperandTexts

NoImmediate == ImmediateErr("none")

Parse(stage, literal, immediate, number) ==
  [stage |-> stage, literal |-> literal, immediate |-> immediate, number |-> number,
   operand |-> OperandErr("none"), token |-> <<>>, reparsed |-> OperandErr("none")]

\* OlaOperand::get_asm_token: an immediate prints as the hex text it holds,
\* a register and a special register by their names.
get_asm_token(o) ==
  CASE o.k = "imm" -> FormatHex(o.v)
    [] o.k = "reg" -> RegText(o.r)
    [] o.k = "regoff" -> <<"[">> \o RegText(o.r) \o <<",">> \o FormatHex(o.off) \o <<"]">>
    [] o.k = "regfactor" -> FormatHex(o.factor) \o <<"*">> \o RegText(o.r)
    [] OTHER -> o.sr

\* ImmediateValue::from_str on the text
ParseImmediate ==
  /\ codec.stage = "literal"
  /\ codec' = [codec EXCEPT !.stage = "immediate",
                            !.immediate = ImmediateValue_parse(codec.literal.text,
                                                               overflow_checks)]
  /\ UNCHANGED <<process_state, runner>>

\* ImmediateValue::to_u64 on the value from_str returned
ImmediateToU64 ==
  /\ codec.stage = "immediate"
  /\ codec.immediate.e = "none"
  /\ codec' = [codec EXCEPT !.stage = "number", !.number = to_u64(codec.immediate.hex)]
  /\ UNCHANGED <<process_state, runner>>

\* OlaOperand::from_str on the text
ParseOperand ==
  /\ codec.stage = "literal"
  /\ codec' = [codec EXCEPT !.stage = "operand",
                            !.operand = OlaOperand_from_str(codec.literal.text,
                                                            overflow_checks)]
  /\ UNCHANGED <<process_state, runner>>

\* get_asm_token on the operand from_str returned
GetAsmToken ==
  /\ codec.stage = "operand"
  /\ codec.operand.e = "none"
  /\ codec' = [codec EXCEPT !.stage = "token", !.token = get_asm_token(codec.operand.op)]
  /\ UNCHANGED <<process_state, runner>>

\* OlaOperand::from_str on the printed token
ReparseToken ==
  /\ codec.stage = "token"
  /\ codec' = [codec EXCEPT !.stage = "reparsed",
                            !.reparsed = OlaOperand_from_str(codec.token, overflow_checks)]
  /\ UNCHANGED <<process_state, runner>>

InitParse ==
  /\ ProcessNew(EndOnly)
  /\ overflow_checks \in BOOLEAN
  /\ runner = new_from_instruction_vec(<<>>, EmptyMap)
  /\ \E l \in Literals : codec = Parse("literal", l, NoImmediate, ParseResult(FALSE, 0))

NextParse ==
  \/ ParseImmediate
  \/ ImmediateToU64
  \/ ParseOperand
  \/ GetAsmToken
  \/ ReparseToken

SpecParse == InitParse /\ [][NextParse]_vars

\* ------------------------------------------------------- the Merkle tree
\* plonky2/src/hash/merkle_tree.rs. A digest is kept as the term it was hashed
\* from, so two digests are equal exactly when their inputs are.
hash_or_noop(leaf) == [k |-> "leaf", data |-> leaf, l |-> <<>>, r |-> <<>>]

two_to_one(a, b) == [k |-> "node", data |-> <<>>, l |-> <<a>>, r |-> <<b>>]

RECURSIVE Log2Floor(_)
Log2Floor(n) == IF n <= 1 THEN 0 ELSE 1 + Log2Floor(n \div 2)

\* log2_strict panics unless n is a power of two.
log2_strict(n) == [ok |-> n >= 1 /\ Pow2(Log2Floor(n)) = n, v |-> Log2Floor(n)]

ShiftRight(x, k) == x \div Pow2(k)

SubtreePanic(msg) == [halt |-> msg, digests |-> <<>>, digest |-> hash_or_noop(<<>>)]

\* The buffer of a subtree: left recursive output, left child digest, right
\* child digest, right recursive output.
SubtreeJoin(left, right) ==
  IF left.halt # "none" THEN left
  ELSE IF right.halt # "none" THEN right
  ELSE [halt |-> "none",
        digests |-> left.digests \o <<left.digest, right.digest>> \o right.digests,
        digest |-> two_to_one(left.digest, right.digest)]

\* fill_subtree on a buffer of buf_len digests
RECURSIVE fill_subtree(_, _)
fill_subtree(buf_len, leaves) ==
  IF Len(leaves) # buf_len \div 2 + 1
    THEN SubtreePanic("panic: assertion failed: leaves.len() == digests_buf.len() / 2 + 1")
  ELSE IF buf_len = 0
    THEN [halt |-> "none", digests |-> <<>>, digest |-> hash_or_noop(leaves[1])]
  ELSE IF buf_len \div 2 = 0 THEN SubtreePanic("panic: unwrap on None")
  ELSE SubtreeJoin(fill_subtree(buf_len \div 2 - 1, SubSeq(leaves, 1, Len(leaves) \div 2)),
                   fill_subtree(buf_len - buf_len \div 2 - 1,
                                SubSeq(leaves, Len(leaves) \div 2 + 1, Len(leaves))))

\* chunks_exact: the whole chunks of the slice.
ChunksExact(q, size) ==
  [i \in 1 .. Len(q) \div size |-> SubSeq(q, (i - 1) * size + 1, i * size)]

RECURSIVE ConcatDigests(_)
ConcatDigests(subtrees) ==
  IF subtrees = <<>> THEN <<>>
  ELSE Head(subtrees).digests \o ConcatDigests(Tail(subtrees))

FilledPanic(msg) == [halt |-> msg, digests |-> <<>>, cap |-> <<>>]

SubtreeHalts(subtrees) == {subtrees[i].halt : i \in DOMAIN subtrees} \ {"none"}

\* The second half of fill_digests_buf: one subtree per chunk of leaves.
FillSubtrees(num_digests, len_cap, leaves, subtree_digests_len, subtree_leaves_len) ==
  LET leaves_chunks == ChunksExact(leaves, subtree_leaves_len)
      subtrees == [i \in DOMAIN leaves_chunks |->
                     fill_subtree(subtree_digests_len, leaves_chunks[i])]
  IN IF num_digests \div subtree_digests_len # len_cap
       THEN FilledPanic("panic: assertion failed: digests_chunks.len() == cap_buf.len()")
     ELSE IF num_digests \div subtree_digests_len # Len(leaves_chunks)
       THEN FilledPanic("panic: assertion failed: digests_chunks.len() == leaves_chunks.len()")
     ELSE IF SubtreeHalts(subtrees) # {}
       THEN FilledPanic(CHOOSE h \in SubtreeHalts(subtrees) : TRUE)
     ELSE [halt |-> "none", digests |-> ConcatDigests(subtrees),
           cap |-> [i \in DOMAIN subtrees |-> subtrees[i].digest]]

\* The tree that is all cap: each cap entry is the digest of its leaf.
FillCap(len_cap, leaves, debug_assertions) ==
  IF debug_assertions /\ len_cap # Len(leaves[1])
    THEN FilledPanic("panic: assertion failed: cap_buf.len() == leaves[0].len()")
  ELSE [halt |-> "none", digests |-> <<>>,
        cap |-> [i \in 1 .. len_cap |-> hash_or_noop(leaves[i])]]

fill_digests_buf(num_digests, len_cap, leaves, cap_height, debug_assertions) ==
  IF num_digests = 0 THEN FillCap(len_cap, leaves, debug_assertions)
  ELSE IF ShiftRight(num_digests, cap_height) = 0 \/ ShiftRight(Len(leaves[1]), cap_height) = 0
    THEN FilledPanic("panic: chunk_size must not be zero")
  ELSE FillSubtrees(num_digests, len_cap, leaves, ShiftRight(num_digests, cap_height),
                    ShiftRight(Len(leaves[1]), cap_height))

NoTree(msg) == [halt |-> msg, leaves |-> <<>>, digests |-> <<>>, cap |-> <<>>]

TreeOf(leaves, filled) ==
  [halt |-> filled.halt, leaves |-> leaves, digests |-> filled.digests, cap |-> filled.cap]

\* A MerkleTree::new whose fill_digests_buf splits the leaves by their number.
MerkleTree_new_by_leaf_count(leaves, cap_height, debug_assertions) ==
  IF ~log2_strict(Len(leaves)).ok THEN NoTree("panic: Not a power of two")
  ELSE IF cap_height > log2_strict(Len(leaves)).v
    THEN NoTree("panic: cap height should be at most log2(leaves.len())")
  ELSE IF Len(leaves) = Pow2(cap_height)
    THEN TreeOf(leaves, FillCap(Pow2(cap_height), leaves, FALSE))
  ELSE TreeOf(leaves, FillSubtrees(2 * (Len(leaves) - Pow2(cap_height)), Pow2(cap_height),
                                   leaves,
                                   ShiftRight(2 * (Len(leaves) - Pow2(cap_height)), cap_height),
                                   ShiftRight(Len(leaves), cap_height)))

\* MerkleTree::new
MerkleTree_new(leaves, cap_height, debug_assertions) ==
  IF ~log2_strict(Len(leaves)).ok THEN NoTree("panic: Not a power of two")
  ELSE IF cap_height > log2_strict(Len(leaves)).v
    THEN NoTree("panic: cap height should be at most log2(leaves.len())")
  ELSE TreeOf(leaves, fill_digests_buf(2 * (Len(leaves) - Pow2(cap_height)), Pow2(cap_height),
                                       leaves, cap_height, debug_assertions))

\* The index in the subtree's digests of the sibling on layer i of the path
\* of pair_index.
sibling_index(pair_index, i) ==
  2 * (ShiftRight(pair_index, i + 1) * Pow2(i + 1) + Pow2(i) - 1)
    + (1 - (ShiftRight(pair_index, i) % 2))

\* MerkleTree::prove: the siblings of the leaf, from the leaf up to the cap.
prove(tree, leaf_index) ==
  LET cap_height == log2_strict(Len(tree.cap)).v
      num_layers == log2_strict(Len(tree.leaves)).v - cap_height
      tree_len == ShiftRight(Len(tree.digests), cap_height)
      first == tree_len * ShiftRight(leaf_index, num_layers)
      pair_index == leaf_index % Pow2(num_layers)
  IN [i \in 1 .. num_layers |-> tree.digests[first + sibling_index(pair_index, i - 1) + 1]]

\* verify_merkle_proof_to_cap: the digest of the leaf hashed up through the
\* siblings, left or right by the bits of the index.
RECURSIVE HashUp(_, _, _)
HashUp(digest, index, siblings) ==
  IF siblings = <<>> THEN [digest |-> digest, index |-> index]
  ELSE HashUp(IF index % 2 = 1 THEN two_to_one(Head(siblings), digest)
              ELSE two_to_one(digest, Head(siblings)),
              index \div 2, Tail(siblings))

verify_merkle_proof_to_cap(leaf_data, leaf_index, cap, siblings) ==
  LET up == HashUp(hash_or_noop(leaf_data), leaf_index, siblings)
  IN up.index + 1 \in DOMAIN cap /\ up.digest = cap[up.index + 1]

\* --------------------------------------------- building and proving a tree
MaxLogLeaves == 3

LeafWidths == {1, 2, 4, 7, 8}

\* n leaves of the width, all different.
LeavesOf(n, width) == [i \in 1 .. n |-> [j \in 1 .. width |-> (i - 1) * width + j]]

Merkle(stage, leaves, cap_height, debug_assertions) ==
  [stage |-> stage, leaves |-> leaves, cap_height |-> cap_height,
   debug_assertions |-> debug_assertions, tree |-> NoTree("none"), leaf_index |-> 0,
   siblings |-> <<>>, verified |-> FALSE]

\* MerkleTree::new on the leaves
MerkleNew ==
  /\ codec.stage = "leaves"
  /\ codec' = [codec EXCEPT !.stage = "tree",
                            !.tree = MerkleTree_new(codec.leaves, codec.cap_height,
                                                    codec.debug_assertions)]
  /\ UNCHANGED <<process_state, runner>>

\* tree.prove(i) for a leaf index
MerkleProve ==
  /\ codec.stage = "tree"
  /\ codec.tree.halt = "none"
  /\ \E i \in 0 .. Len(codec.leaves) - 1 :
       codec' = [codec EXCEPT !.stage = "proof", !.leaf_index = i,
                              !.siblings = prove(codec.tree, i)]
  /\ UNCHANGED <<process_state, runner>>

\* verify_merkle_proof_to_cap(leaf, i, &tree.cap, &proof)
MerkleVerify ==
  /\ codec.stage = "proof"
  /\ codec' = [codec EXCEPT !.stage = "verified",
                            !.verified = verify_merkle_proof_to_cap(
                                           codec.leaves[codec.leaf_index + 1],
                                           codec.leaf_index, codec.tree.cap, codec.siblings)]
  /\ UNCHANGED <<process_state, runner>>

InitMerkle ==
  /\ ProcessNew(EndOnly)
  /\ overflow_checks = TRUE
  /\ runner = new_from_instruction_vec(<<>>, EmptyMap)
  /\ \E log_n \in 0 .. MaxLogLeaves, width \in LeafWidths,
        cap_height \in 0 .. MaxLogLeaves + 1, debug_assertions \in BOOLEAN :
       codec = Merkle("leaves", LeavesOf(Pow2(log_n), width), cap_height, debug_assertions)

NextMerkle ==
  \/ MerkleNew
  \/ MerkleProve
  \/ MerkleVerify

SpecMerkle == InitMerkle /\ [][NextMerkle]_vars

\* --------------------------------------------------------- the tape table
\* The bit masks of the tape opcodes, as distinct non-zero field elements.
TapeOpcode == [tload |-> 2, tstore |-> 4, sccall |-> 8]

TapeRow(tx_idx, opcode, addr, value, is_init_seg, filter_looked) ==
  [tx_idx |-> tx_idx, opcode |-> opcode, addr |-> addr, value |-> value,
   is_init_seg |-> is_init_seg, filter_looked |-> filter_looked]

is_in_same_tx(lv, nv) == F_sub(1, F_sub(nv.tx_idx, lv.tx_idx))

AddrStep(lv, nv) == F_sub(nv.addr, lv.addr)

\* Product of field elements.
RECURSIVE F_product(_)
F_product(q) == IF q = <<>> THEN 1 ELSE F_mul(Head(q), F_product(Tail(q)))

\* Mutant of InitSegInSameTx: the step allowed inside a transaction is the
\* one from 0 to 1.
InitSegInSameTxRising(lv, nv) ==
  F_product(<<is_in_same_tx(lv, nv), F_sub(nv.is_init_seg, lv.is_init_seg),
              F_sub(F_sub(nv.is_init_seg, lv.is_init_seg), 1)>>)

\* constraint_transition: is_in_same_tx * (nv - lv) * (lv - nv - 1) on
\* is_init_seg
InitSegInSameTx(lv, nv) ==
  F_product(<<is_in_same_tx(lv, nv), F_sub(nv.is_init_seg, lv.is_init_seg),
              F_sub(F_sub(lv.is_init_seg, nv.is_init_seg), 1)>>)

\* constraint_transition: (1 - is_in_same_tx) * (1 - nv.is_init_seg)
InitSegAtNewTx(lv, nv) ==
  F_mul(F_sub(1, is_in_same_tx(lv, nv)), F_sub(1, nv.is_init_seg))

\* The polynomials of yield_constr.constraint that read the local row only.
RowConstraints(lv) ==
  <<F_product(<<lv.opcode, F_sub(lv.opcode, TapeOpcode.tstore),
                F_sub(lv.opcode, TapeOpcode.tload), F_sub(lv.opcode, TapeOpcode.sccall)>>),
    F_mul(lv.is_init_seg, F_sub(1, lv.is_init_seg)),
    F_product(<<lv.is_init_seg, lv.opcode, F_sub(lv.opcode, TapeOpcode.tload)>>),
    F_product(<<F_sub(1, lv.is_init_seg), F_sub(lv.opcode, TapeOpcode.tload),
                F_sub(lv.opcode, TapeOpcode.tstore), F_sub(lv.opcode, TapeOpcode.sccall)>>),
    F_product(<<lv.opcode, F_sub(lv.opcode, TapeOpcode.tload),
                F_sub(1, lv.filter_looked)>>)>>

\* yield_constr.constraint_first_row
FirstRowConstraints(lv) == <<lv.tx_idx, lv.addr>>

\* yield_constr.constraint_transition: every row but the last, with the row
\* after it.
TransitionConstraints(lv, nv) ==
  <<F_mul(F_sub(nv.tx_idx, lv.tx_idx), F_sub(F_sub(nv.tx_idx, lv.tx_idx), 1)),
    InitSegAtNewTx(lv, nv),
    InitSegInSameTx(lv, nv),
    F_mul(F_sub(1, is_in_same_tx(lv, nv)), nv.addr),
    F_product(<<is_in_same_tx(lv, nv), AddrStep(lv, nv), F_sub(AddrStep(lv, nv), 1)>>),
    F_product(<<is_in_same_tx(lv, nv), F_sub(1, AddrStep(lv, nv)),
                F_sub(nv.value, lv.value)>>),
    F_product(<<is_in_same_tx(lv, nv), F_sub(1, AddrStep(lv, nv)),
                F_sub(nv.opcode, TapeOpcode.tload)>>)>>

\* The yield_constr.constraint that reads the next row: it is evaluated on
\* the last row too, where the next row is the first.
NextRowConstraints(lv, nv) ==
  <<F_product(<<is_in_same_tx(lv, nv), AddrStep(lv, nv), nv.opcode,
                F_sub(nv.opcode, TapeOpcode.tstore),
                F_sub(nv.opcode, TapeOpcode.sccall)>>)>>

AllZero(polys) == \A n \in DOMAIN polys : polys[n] = 0

\* eval_packed_generic on a row and the row after it.
eval_packed_generic(lv, nv) ==
  AllZero(RowConstraints(lv) \o TransitionConstraints(lv, nv) \o NextRowConstraints(lv, nv))

\* The rows offered to the table.
MaxTapeRows == 3
TapeOpcodeValues == {0, 1, TapeOpcode.tload, TapeOpcode.tstore, TapeOpcode.sccall}

TapeRows ==
  {TapeRow(tx_idx, opcode, addr, value, is_init_seg, filter_looked) :
     tx_idx \in {0, 1}, opcode \in TapeOpcodeValues, addr \in {0, 1},
     value \in {0, 1}, is_init_seg \in {0, 1, 2}, filter_looked \in {0, 1}}

Tape(stage, rows) == [stage |-> stage, rows |-> rows]

\* The first row of a trace: the first-row constraints hold on it.
TapeFirstRow ==
  /\ codec.stage = "tape"
  /\ codec.rows = <<>>
  /\ \E row \in TapeRows :
       /\ AllZero(FirstRowConstraints(row))
       /\ codec' = Tape("tape", <<row>>)
  /\ UNCHANGED <<process_state, runner>>

\* One more row: the constraints hold on the last row and the new one.
TapeNextRow ==
  /\ codec.stage = "tape"
  /\ codec.rows # <<>>
  /\ Len(codec.rows) < MaxTapeRows
  /\ \E row \in TapeRows :
       /\ eval_packed_generic(codec.rows[Len(codec.rows)], row)
       /\ codec' = Tape("tape", Append(codec.rows, row))
  /\ UNCHANGED <<process_state, runner>>

\* The trace is complete: on its last row the constraints that are not
\* transition constraints hold, the next row being the first.
TapeComplete ==
  /\ codec.stage = "tape"
  /\ codec.rows # <<>>
  /\ AllZero(RowConstraints(codec.rows[Len(codec.rows)])
               \o NextRowConstraints(codec.rows[Len(codec.rows)], codec.rows[1]))
  /\ codec' = Tape("satisfied", codec.rows)
  /\ UNCHANGED <<process_state, runner>>

InitTape ==
  /\ ProcessNew(EndOnly)
  /\ overflow_checks = FALSE
  /\ runner = new_from_instruction_vec(<<>>, EmptyMap)
  /\ codec = Tape("tape", <<>>)

NextTape ==
  \/ TapeFirstRow
  \/ TapeNextRow
  \/ TapeComplete

SpecTape == InitTape /\ [][NextTape]_vars

\* =============================================================== claims
Terminal == status \in {"ok", "fault", "panic"}

Completed == status = "ok"

\* The write-once regions as the specification bounds them: p - 3 * 2^32 on.
WriteOnceAddr(addr) == addr >= ORDER - 3 * V_U32

WriteRowsAt(addr) ==
  {i \in DOMAIN trace.memory :
     trace.memory[i].addr = addr /\ trace.memory[i].is_write = OpWrite}

ReadRowsAt(addr) ==
  {i \in DOMAIN trace.memory :
     trace.memory[i].addr = addr /\ trace.memory[i].is_write = OpRead}

\* C1: after a completed run the memory trace holds at most one row with
\* is_write = 1 for every address of a write-once region, whatever mix of
\* mstore and prophet writes the program performed.
C1_WriteOnceRegionsHoldOneWrite ==
  Completed =>
    \A i \in DOMAIN trace.memory :
      WriteOnceAddr(trace.memory[i].addr) =>
        Cardinality(WriteRowsAt(trace.memory[i].addr)) <= 1

\* C2: mstore [psp,0] r0; mov r0 1; mstore [psp,0] r0; end does not complete:
\* the run halts at the second mstore (clk 2, pc 4) with WriteOnceViolation.
C2_SecondMstoreIsViolation ==
  (program = WriteOnceTwice.program /\ prophets = NoProphets /\ Terminal) =>
    (status = "fault" /\ fault = "WriteOnceViolation" /\ clk = 2 /\ pc = 4)

\* The value of the most recent write cell before position i of a cell list;
\* -1 when there is none.
RECURSIVE LastWriteBefore(_, _)
LastWriteBefore(cells, i) ==
  IF i <= 1 THEN -1
  ELSE IF cells[i - 1].is_write = OpWrite THEN cells[i - 1].value
  ELSE LastWriteBefore(cells, i - 1)

\* Every read cell recorded as read-write carries the most recent earlier
\* write at its address.
ReadCellsCarryLastWrite ==
  \A a \in DOMAIN memory :
    \A i \in DOMAIN memory[a] :
      (memory[a][i].is_write = OpRead /\ memory[a][i].is_rw = ReadWrite) =>
        memory[a][i].value = LastWriteBefore(memory[a], i)

\* An mload of a read-write address that does not halt leaves the most
\* recent write in its destination register.
MloadReturnsLastWrite ==
  (Running /\ Cur.opcode = "mload" /\ status' \in {"running", "loop_done"}) =>
    LET a == MemAddr(get_index_value(Cur.ops[2]), OffsetAddr(Cur))
    IN MloadRegion(a).is_rw = ReadWrite =>
         /\ a \in DOMAIN memory
         /\ registers'[get_reg_index(Cur.ops[1])] =
              LastWriteBefore(memory[a], Len(memory[a]) + 1)

\* ret restores fp from the most recent write at [fp - 2] and jumps to the
\* most recent write at [fp - 1].
RetReturnsLastWrite ==
  (Running /\ Cur.opcode = "ret" /\ status' \in {"running", "loop_done"}) =>
    LET fp == registers[FP_REG_INDEX]
    IN /\ pc' = LastWriteBefore(memory[fp - 1], Len(memory[fp - 1]) + 1)
       /\ registers'[FP_REG_INDEX] = LastWriteBefore(memory[fp - 2], Len(memory[fp - 2]) + 1)

MemoryRoundTripResult ==
  (program = MemoryRoundTrip.program /\ Terminal) =>
    /\ Completed
    /\ registers[0] = 8
    /\ Cardinality(WriteRowsAt(registers[8])) = 1
    /\ Cardinality(ReadRowsAt(registers[8])) = 1
    /\ Len(trace.memory) = 2

\* C3: every read of a read-write address (mload, the frame reads of call and
\* ret) returns the value of the most recent earlier write to it; mov r0 8;
\* mstore [r8,0] r0; mov r0 0; mload r0 [r8,0]; end finishes with R0 = 8 and
\* one write row and one read row at that address.
C3_ReadsReturnLastWrite ==
  /\ [](ReadCellsCarryLastWrite /\ MemoryRoundTripResult)
  /\ [][MloadReturnsLastWrite /\ RetReturnsLastWrite]_vars

C3_Witness ==
  /\ program = MemoryRoundTrip.program
  /\ Completed
  /\ registers[0] = 8
  /\ \E i \in DOMAIN trace.memory : trace.memory[i].is_write = OpRead /\ trace.memory[i].value = 8

\* A step of the loop that executes its instruction without halting.
ExecutedStep == status = "running" /\ status' \in {"running", "loop_done"}

\* An executed step appends one row, stamped with the clk and pc it ran at;
\* any other step leaves the CPU trace alone.
OneCpuRowPerStep ==
  IF ExecutedStep
  THEN /\ Len(trace'.exec) = Len(trace.exec) + 1
       /\ SubSeq(trace'.exec, 1, Len(trace.exec)) = trace.exec
       /\ trace'.exec[Len(trace'.exec)].clk = clk
       /\ trace'.exec[Len(trace'.exec)].pc = pc
       /\ trace'.exec[Len(trace'.exec)].opcode = Cur.opcode
  ELSE trace'.exec = trace.exec

CpuClkCounts == \A i \in DOMAIN trace.exec : trace.exec[i].clk = i - 1

\* clk counts the steps executed before the current one; END and a pc past
\* the program leave the loop without the increment.
CpuLengthIsStepCount ==
  /\ status = "running" => Len(trace.exec) = clk
  /\ status = "fault" => Len(trace.exec) = clk
  /\ status \in {"loop_done", "ok"} => Len(trace.exec) = clk + 1

\* C4: execute appends exactly one CPU row for every executed instruction,
\* the final END included, and none for an instruction that faults; the rows'
\* clk values are 0, 1, 2, ... so the length of the CPU trace is the number
\* of executed steps.
C4_OneCpuRowPerExecutedStep ==
  /\ [](CpuClkCounts /\ CpuLengthIsStepCount)
  /\ [][OneCpuRowPerStep]_vars

C4_Witness ==
  /\ Completed
  /\ Len(trace.exec) >= 4
  /\ trace.exec[Len(trace.exec)].opcode = "end"
  /\ trace.exec[Len(trace.exec)].clk = Len(trace.exec) - 1

\* C5: from Process::new(), after every step each general register holds a
\* canonical field value in [0, p), for every opcode, AND, OR and XOR on
\* canonical operands included.
C5_RegistersCanonical == \A r \in Regs : registers[r] >= 0 /\ registers[r] < ORDER

\* C6: every row of the range-check trace carries a value < 2^32, whichever
\* producer emitted it (RANGE, GTE, the memory table, the storage table).
C6_RangeCheckValuesAreU32 ==
  \A i \in DOMAIN trace.builtin_rangecheck :
    trace.builtin_rangecheck[i].val >= 0 /\ trace.builtin_rangecheck[i].val < V_U32

\* C7: in the memory trace of gen_memory_table, two consecutive rows with the
\* same address have strictly increasing clk, prophet writes (clk 0) and
\* prophet input reads (the host instruction's clk) included.
C7_SameAddressClkIncreases ==
  \A i \in DOMAIN trace.memory :
    (i > 1 /\ trace.memory[i - 1].addr = trace.memory[i].addr) =>
      trace.memory[i - 1].clk < trace.memory[i].clk

\* C8: two runs of execute, each from Process::new(), on the same program,
\* prophets and account tree produce identical CPU, memory, range-check,
\* bitwise, comparison, poseidon and storage traces, row for row (and end the
\* same way).
C8_SecondRunRepeatsTraces ==
  (first_run.done /\ Terminal) =>
    /\ status = first_run.status
    /\ fault = first_run.fault
    /\ trace.exec = first_run.trace.exec
    /\ trace.memory = first_run.trace.memory
    /\ trace.builtin_rangecheck = first_run.trace.builtin_rangecheck
    /\ trace.builtin_bitwise_combined = first_run.trace.builtin_bitwise_combined
    /\ trace.builtin_cmp = first_run.trace.builtin_cmp
    /\ trace.builtin_posiedon = first_run.trace.builtin_posiedon
    /\ trace.builtin_storage = first_run.trace.builtin_storage
    /\ trace.builtin_storage_hash = first_run.trace.builtin_storage_hash

\* Both runs completed and the storage map held two keys, so the two runs
\* could walk it in different orders.
C8_Witness ==
  /\ first_run.done
  /\ Completed
  /\ first_run.status = "ok"
  /\ Len(trace.builtin_storage) >= 3
  /\ \E i, j \in DOMAIN trace.builtin_storage :
       trace.builtin_storage[i].addr # trace.builtin_storage[j].addr

\* A program whose last instruction before end is assert r0 r1, with no
\* prophet hosted at the assert.
AssertPc == Len(program) - 2

EndsWithAssert ==
  /\ Len(program) >= 2
  /\ program[Len(program)] = InstrEnd
  /\ program[Len(program) - 1] = I1("assert", <<R(0), R(1)>>)
  /\ AssertPc \notin DOMAIN prophets

RowsFrom(at) == {i \in DOMAIN trace.exec : trace.exec[i].pc >= at}

\* C9: a program whose last instruction before end is assert r0 r1 completes
\* if and only if R0 = R1 (as field elements) when the assert executes; when
\* they differ the run halts at the assert with AssertFail and neither the
\* assert nor any later instruction is recorded as executed.
C9_AssertDecidesCompletion ==
  (EndsWithAssert /\ Terminal /\ pc >= AssertPc) =>
    IF to_canonical_u64(registers[0]) = to_canonical_u64(registers[1])
    THEN /\ Completed
         /\ Cardinality(RowsFrom(AssertPc)) = 2
         /\ trace.exec[Len(trace.exec)].opcode = "end"
         /\ trace.exec[Len(trace.exec) - 1].opcode = "assert"
    ELSE /\ status = "fault"
         /\ fault = "AssertFail"
         /\ pc = AssertPc
         /\ RowsFrom(AssertPc) = {}

C9_Witness ==
  /\ EndsWithAssert
  /\ status = "fault"
  /\ fault = "AssertFail"
  /\ registers[0] # registers[1]
  /\ Len(trace.exec) >= 3

C9_WitnessPass ==
  /\ EndsWithAssert
  /\ Completed
  /\ registers[0] = registers[1]
  /\ registers[0] # 0

\* A range step: what it must leave, from the register it checks.
RangeStepOutcome ==
  (Running /\ Cur.opcode = "range" /\ pc \notin DOMAIN prophets) =>
    LET v == registers[get_reg_index(Cur.ops[1])]
    IN IF v >= V_U32
       THEN /\ status' = "fault"
            /\ fault' = "U32RangeCheckFail"
            /\ trace'.builtin_rangecheck = trace.builtin_rangecheck
            /\ trace'.exec = trace.exec
            /\ registers' = registers
       ELSE /\ status' \in {"running", "loop_done"}
            /\ trace'.builtin_rangecheck = Append(trace.builtin_rangecheck, RcRow(v, RcCpu))
            /\ pc' = pc + Cur.step
            /\ registers' = registers

RangeFaultResult ==
  (program = RangeFault.program /\ Terminal) =>
    (status = "fault" /\ fault = "U32RangeCheckFail" /\ pc = 2 /\ registers[0] = V_U32)

\* C10: range on a register faults with U32RangeCheckFail exactly when the
\* register's u64 value is >= 2^32 (mov r0 4294967296; range r0; end halts
\* with that fault); otherwise the step appends exactly one range-check row
\* holding the value, advances pc by the instruction length and changes no
\* register.
C10_RangeFaultsFromTwoPow32 ==
  /\ []RangeFaultResult
  /\ [][RangeStepOutcome]_vars

C10_Witness ==
  /\ Completed
  /\ \E i \in DOMAIN trace.builtin_rangecheck :
       /\ trace.builtin_rangecheck[i].filter = RcCpu
       /\ trace.builtin_rangecheck[i].val = U32_MAX

\* A cjmp step: what it must leave, from the flag it tests.
CjmpStepOutcome ==
  (Running /\ Cur.opcode = "cjmp" /\ pc \notin DOMAIN prophets) =>
    LET flag == to_canonical_u64(registers[get_reg_index(Cur.ops[1])])
        target == get_index_value(Cur.ops[2])
    IN IF flag = 1
       THEN pc' = target /\ status' \in {"running", "loop_done"}
       ELSE IF flag = 0
       THEN pc' = pc + Cur.step /\ status' \in {"running", "loop_done"}
       ELSE status' = "fault" /\ pc' = pc /\ trace'.exec = trace.exec

\* C11: cjmp op0 op1 sets pc to op1 when op0 = 1, sets pc to pc + the
\* instruction length when op0 = 0, and halts the run with a fault, without
\* moving pc or recording the step, when op0 is any other value.
C11_CjmpFaultsOnNonBinaryFlag == [][CjmpStepOutcome]_vars

\* The value an address holds: that of its latest cell.
LastValue(mem, addr) == mem[addr][Len(mem[addr])].value

\* A call step that goes through leaves the return pc at [fp - 1] and jumps.
CallStepOutcome ==
  (Running /\ Cur.opcode = "call" /\ pc \notin DOMAIN prophets
     /\ status' \in {"running", "loop_done"}) =>
    /\ registers[FP_REG_INDEX] >= 2
    /\ LastValue(memory', registers[FP_REG_INDEX] - 1) = pc + Cur.step
    /\ pc' = get_index_value(Cur.ops[1])
    /\ registers' = registers

\* A ret step that goes through takes pc from [fp - 1] and fp from [fp - 2].
RetStepOutcome ==
  (Running /\ Cur.opcode = "ret" /\ pc \notin DOMAIN prophets
     /\ status' \in {"running", "loop_done"}) =>
    /\ registers[FP_REG_INDEX] >= 2
    /\ pc' = LastValue(memory, registers[FP_REG_INDEX] - 1)
    /\ registers' = [registers EXCEPT
                       ![FP_REG_INDEX] = LastValue(memory, registers[FP_REG_INDEX] - 2)]

\* The call/ret scenario ends Ok with R0 = (8 * 10 + 2) + 2.
CallTestResult ==
  (program = CallTest.program /\ Terminal) => (Completed /\ registers[0] = 84)

\* C12: a call at pc c of length len leaves c + len at [fp - 1]; a ret sets
\* pc to the value at [fp - 1] and the frame pointer to the value at
\* [fp - 2], so that with both untouched in between the ret returns to
\* c + len; the call/ret scenario therefore ends with R0 = 84.
C12_RetReturnsAfterCall ==
  /\ []CallTestResult
  /\ [][CallStepOutcome /\ RetStepOutcome]_vars

\* The instruction run_one_step is about to execute.
RunnerCur == runner.instructions[runner.context.pc]

RunnerAt(opcode) ==
  /\ ~RunnerDead
  /\ ~runner.is_ended
  /\ runner.context.pc \in DOMAIN runner.instructions
  /\ RunnerCur.opcode = opcode

\* A RET step of the runner that returns Ok.
RunnerRetOutcome ==
  (RunnerAt("ret") /\ runner'.result = "ok"
     /\ runner'.context.clk = runner.context.clk + 1) =>
    LET fp == get_fp(runner.context)
    IN /\ runner'.context.pc = runner.context.memory[to_canonical_u64(F_sub(fp, 1))]
       /\ get_fp(runner'.context) = runner.context.memory[to_canonical_u64(F_sub(fp, 2))]

RunnerEndOutcome ==
  /\ RunnerAt("end") => (runner'.is_ended /\ runner'.context.pc = runner.context.pc
                         /\ runner'.context.clk = runner.context.clk)
  /\ runner.is_ended =>
       /\ runner'.is_ended
       /\ runner'.context = runner.context
       /\ runner'.instructions = runner.instructions
       /\ runner'.result = "RunAfterEndedError"

\* C14: once run_one_step has executed END, every later call returns the
\* run-after-end error and leaves clk, pc, registers, psp and memory as they
\* were; no instruction is executed after END.
C14_NothingRunsAfterEnd == [][RunnerEndOutcome]_vars

C14_Witness ==
  /\ runner.is_ended
  /\ runner.result = "RunAfterEndedError"
  /\ runner.context.clk > 0
  /\ \E at \in DOMAIN runner.instructions : at > runner.context.pc

\* The last recorded step transferred control (jmp, call, ret, or a cjmp whose
\* flag was 1) and left pc at an address where no instruction starts.
JumpedOffProgram ==
  /\ trace.exec # <<>>
  /\ pc \notin DOMAIN instructions
  /\ LET row == trace.exec[Len(trace.exec)]
     IN \/ row.opcode \in {"jmp", "call", "ret"}
        \/ /\ row.opcode = "cjmp"
           /\ to_canonical_u64(row.registers[get_reg_index(instructions[row.pc].ops[1])]) = 1

\* C15: when a jmp, a taken cjmp, a call or a ret sets pc to a value that is
\* not the start address of an instruction, the run halts with the
\* UnresolvedPC fault: it neither completes successfully nor ends otherwise.
C15_JumpOffProgramFaults ==
  JumpedOffProgram =>
    \/ status \in {"running", "loop_done"}
    \/ status = "fault" /\ fault = "UnresolvedPC"

\* The region the specification assigns to an address: three write-once
\* buckets of 2^32 addresses below p, read-write under them.
RegionOfAddress(a) ==
  IF a >= ORDER - V_U32
    THEN [is_rw |-> WriteOnce, region_prophet |-> 1, region_poseidon |-> 0, region_ecdsa |-> 0]
  ELSE IF a >= ORDER - 2 * V_U32
    THEN [is_rw |-> WriteOnce, region_prophet |-> 0, region_poseidon |-> 1, region_ecdsa |-> 0]
  ELSE IF a >= ORDER - 3 * V_U32
    THEN [is_rw |-> WriteOnce, region_prophet |-> 0, region_poseidon |-> 0, region_ecdsa |-> 1]
  ELSE [is_rw |-> ReadWrite, region_prophet |-> 0, region_poseidon |-> 0, region_ecdsa |-> 0]

CellRegion(cell) ==
  [is_rw |-> cell.is_rw, region_prophet |-> cell.region_prophet,
   region_poseidon |-> cell.region_poseidon, region_ecdsa |-> cell.region_ecdsa]

\* C16: every memory cell recorded for an address a, by mstore, mload, call,
\* ret or a prophet, carries the region that a alone determines: prophet,
\* poseidon or ecdsa with write-once in the three 2^32 buckets below p,
\* read-write with no region flag elsewhere.
C16_RegionIsFunctionOfAddress ==
  \A a \in DOMAIN memory : \A k \in 1..Len(memory[a]) :
    CellRegion(memory[a][k]) = RegionOfAddress(a)

\* C17: Process::new() returns clk = 0, pc = 0, every general register 0,
\* psp = p - 2^32 and hp = p - 3 * 2^32, with empty memory and an empty
\* storage log.
C17_ProcessNewState ==
  status = "decode" =>
    /\ clk = 0
    /\ pc = 0
    /\ \A r \in Regs : registers[r] = 0
    /\ psp = ORDER - V_U32
    /\ hp = ORDER - 3 * V_U32
    /\ memory = EmptyMap
    /\ storage_log = <<>>

\* The step runs the instruction at pc and then the prophet hosted there; END
\* leaves the loop before the prophet call.
ProphetStep ==
  /\ Running
  /\ pc \in DOMAIN prophets
  /\ pc \in DOMAIN instructions
  /\ Cur.opcode # "end"

\* What the scripting collaborator returned in this step: its inputs are the
\* values Process::prophet read after the instruction had acted.
ProphetOut ==
  InterpreterRun(prophets[pc],
                 ReadProphetInputs(InputFlags(prophets[pc].inputs),
                                   PROPHET_INPUT_REG_START_INDEX,
                                   PROPHET_INPUT_FP_START_OFFSET, memory', registers',
                                   <<>>).values)

\* The cells a prophet wrote: those recorded under no opcode as writes.
RECURSIVE CountProphetWrites(_, _)
CountProphetWrites(mem, addrs) ==
  IF addrs = {} THEN 0
  ELSE LET a == CHOOSE x \in addrs : TRUE
       IN Cardinality({k \in 1 .. Len(mem[a]) :
                         mem[a][k].op = "none" /\ mem[a][k].is_write = OpWrite})
          + CountProphetWrites(mem, addrs \ {a})

ProphetWriteCount(mem) == CountProphetWrites(mem, DOMAIN mem)

ProphetMultipleOutcome(out, n) ==
  /\ \A i \in 1 .. n :
       /\ psp + i - 1 \in DOMAIN memory'
       /\ Len(memory'[psp + i - 1]) = 1
       /\ memory'[psp + i - 1][1].is_write = OpWrite
       /\ memory'[psp + i - 1][1].op = "none"
       /\ memory'[psp + i - 1][1].value = out.values[i]
  /\ ProphetWriteCount(memory') = ProphetWriteCount(memory) + n
  /\ psp' = psp + n
  /\ hp' = out.values[n + 1]

ProphetStepOutcome ==
  (ProphetStep /\ status' \in {"running", "loop_done"} /\ ProphetOut.kind = "Multiple") =>
    ProphetMultipleOutcome(ProphetOut, Len(ProphetOut.values) - 1)

\* C18: when the scripting collaborator returns Multiple([v1, ..., vn, h]),
\* Process::prophet writes v1..vn in order to psp, psp + 1, ..., psp + n - 1,
\* one write each, leaves psp advanced by n, sets hp to h and does not write
\* h to memory.
C18_ProphetWritesOutputs == [][ProphetStepOutcome]_vars

C18_Witness ==
  /\ psp = PSP_START_ADDR + 2
  /\ hp = HP_START_ADDR + 1
  /\ ProphetWriteCount(memory) = 2
  /\ status = "ok"

\* The host instruction cannot halt and the prophet's inputs were all read, so
\* the step reached the scripting collaborator.
ProphetInvoked ==
  /\ ProphetStep
  /\ Cur.opcode \in {"mov", "not"}
  /\ ReadProphetInputs(InputFlags(prophets[pc].inputs), PROPHET_INPUT_REG_START_INDEX,
                       PROPHET_INPUT_FP_START_OFFSET, memory', registers', <<>>).halt = "none"

ProphetSingleOutcome ==
  (ProphetInvoked /\ ProphetOut.kind = "Single") =>
    /\ status' = "fault"
    /\ fault' = "ProphetReturnTypeMismatch"
    /\ ProphetWriteCount(memory') = ProphetWriteCount(memory)
    /\ psp' = psp
    /\ hp' = hp

\* C19: when the scripting collaborator returns Single for a prophet, the run
\* halts with the ProphetReturnTypeMismatch fault, no memory cell is written
\* for the prophet, and psp and hp are unchanged.
C19_SingleReturnFaults == [][ProphetSingleOutcome]_vars

\* What an assembly operand denotes once labels and identifiers are resolved.
DenotedOperand(o) ==
  CASE o.k = "label" -> ImmediateOperand(mapper_label_jmp[o.value])
    [] o.k = "identifier" -> ImmediateOperand(mapper_label_call[o.value])
    [] o.k = "regfactored" -> RegisterWithFactor(o.offset_register, o.factor)
    [] o.k = "regoff" -> ImmediateOperand(o.off)
    [] OTHER -> o

\* The three positional operands of an assembly instruction: a memory
\* instruction is read as (anchor register, offset, value register).
DenotedInstruction(asm) ==
  IF asm.opcode = "mload"
    THEN BinaryInstruction(asm.opcode, RegisterOperand(asm.op1.r), DenotedOperand(asm.op1),
                           asm.dst, NoProphet)
  ELSE IF asm.opcode = "mstore"
    THEN BinaryInstruction(asm.opcode, RegisterOperand(asm.op0.r), DenotedOperand(asm.op0),
                           asm.op1, NoProphet)
  ELSE BinaryInstruction(asm.opcode, DenotedOperand(asm.op0), DenotedOperand(asm.op1),
                         DenotedOperand(asm.dst), NoProphet)

\* C20: for every valid assembly instruction, whatever the kinds of its
\* operands, decoding its binary encoding yields an instruction with the same
\* opcode, op0, op1 and dst.
C20_DecodeInvertsEncode ==
  (codec.stage = "decoded" /\ codec.asm \in ValidAsm) =>
    codec.decoded = DenotedInstruction(codec.asm)

\* The names among the operands of an instruction, each with the map that
\* is its own: the jump map for a label, the call map for an identifier.
OwnMap(o) == IF o.k = "label" THEN mapper_label_jmp ELSE mapper_label_call

NamedOperands(asm) == {o \in {asm.op0, asm.op1, asm.dst} : o.k \in {"label", "identifier"}}

NameResolved(asm_op, bin_op) ==
  asm_op.k \in {"label", "identifier"} =>
    bin_op = ImmediateOperand(OwnMap(asm_op)[asm_op.value])

EncodedNames ==
  IF \E o \in NamedOperands(codec.asm) : o.value \notin DOMAIN OwnMap(o)
  THEN /\ codec.stage = "error"
       /\ codec.error \in {"invalid label", "invalid identifier"}
       /\ codec.binary = NoInstruction
       /\ codec.elements = <<>>
  ELSE /\ codec.stage # "error"
       /\ NameResolved(codec.asm.op0, codec.binary.op0)
       /\ NameResolved(codec.asm.op1, codec.binary.op1)
       /\ NameResolved(codec.asm.dst, codec.binary.dst)

\* C21: encode_to_binary resolves a label only through the jump-label map and
\* an identifier only through the call-identifier map, replacing it by the
\* immediate of the mapped pc; a name absent from its own map, even when the
\* other map holds it, gives an error and no binary instruction.
C21_NamesResolveInOwnMap ==
  (codec.stage \notin {"idle", "asm"} /\ ~is_adjusted_operand(codec.asm)) => EncodedNames

C21_Witness ==
  /\ codec.stage = "error"
  /\ codec.asm.op1.k = "label"
  /\ codec.asm.op1.value \in DOMAIN mapper_label_call

\* The memory operand and the value register of MLOAD dst [r,off] and of
\* MSTORE [r,off] src.
MemOperandOf(asm) == IF asm.opcode = "mload" THEN asm.op1 ELSE asm.op0

ValueRegisterOf(asm) == IF asm.opcode = "mload" THEN asm.dst ELSE asm.op1

FlattenedMemOperands(asm, bin) ==
  /\ bin.opcode = asm.opcode
  /\ bin.op0 = RegisterOperand(MemOperandOf(asm).r)
  /\ bin.op1 = IF MemOperandOf(asm).k = "regoff"
               THEN ImmediateOperand(MemOperandOf(asm).off)
               ELSE RegisterWithFactor(MemOperandOf(asm).offset_register,
                                       MemOperandOf(asm).factor)
  /\ bin.dst = RegisterOperand(ValueRegisterOf(asm).r)

\* C22: for MLOAD dst [r,off] and MSTORE [r,off] src, encode_to_binary emits
\* op0 = the anchor register r, op1 = the immediate offset (or the offset
\* register with its factor) and dst = the value register.
C22_MemOperandsFlattened ==
  (codec.stage \notin {"idle", "asm"} /\ is_adjusted_operand(codec.asm)) =>
    /\ codec.stage # "error"
    /\ FlattenedMemOperands(codec.asm, codec.binary)

C22_Witness ==
  /\ codec.stage = "binary"
  /\ codec.asm.opcode = "mstore"
  /\ codec.asm.op0.k = "regfactored"
  /\ codec.binary.dst = RegisterOperand(1)

\* The literal is well formed and its value is in range: below p for a
\* hexadecimal one, strictly between -p and p for a decimal one.
LiteralInRange(l) ==
  \/ l.form = "hex" /\ l.value < ORDER
  \/ l.form = "dec" /\ -ORDER < l.value /\ l.value < ORDER

\* C23: ImmediateValue::from_str returns an error for every 0x literal whose
\* value is >= p and for every decimal literal v with v >= p or v <= -p, and
\* succeeds for every other well-formed literal.
C23_FromStrRejectsOverflow ==
  (codec.stage = "immediate" /\ codec.literal.form \in {"hex", "dec"}) =>
    IF LiteralInRange(codec.literal)
    THEN codec.immediate.e = "none"
    ELSE codec.immediate.e \in {"Immediate overflow", "Immediate is not a valid number"}

\* The number a literal of value v denotes in the field: v, or p - |v|.
FieldValueOf(v) == IF v < 0 THEN ORDER + v ELSE v

\* C24: for every literal of value v that ImmediateValue::from_str accepts,
\* the stored hex string is the lowercase 0x form of v when v >= 0 and of
\* p - |v| when v < 0, and to_u64 returns that same number, which is in [0, p).
C24_StoredValueIsCanonical ==
  (codec.stage = "number" /\ codec.literal.form \in {"hex", "dec"}) =>
    /\ FieldValueOf(codec.literal.value) \in 0 .. ORDER - 1
    /\ codec.immediate.hex = FormatHex(FieldValueOf(codec.literal.value))
    /\ codec.number.ok
    /\ codec.number.v = FieldValueOf(codec.literal.value)

\* The offset or immediate of a decimal k in the field.
ModOrder(k) == k % ORDER

DecimalInRange(k) == -ORDER < k /\ k < ORDER

\* What the text is to be parsed as. A decimal outside (-p, p) is either
\* refused, as ImmediateValue::from_str is to refuse it, or reduced mod p.
ParsedAsWritten(l, r) ==
  CASE l.form = "reg" -> r = OperandOk(RegisterOperand(l.reg))
    [] l.form = "regoff" ->
         \/ r = OperandOk(RegisterWithOffset(l.reg, ModOrder(l.value)))
         \/ ~DecimalInRange(l.value) /\ r = OperandErr("Immediate overflow")
    [] l.form = "dec" ->
         \/ r = OperandOk(ImmediateOperand(ModOrder(l.value)))
         \/ ~DecimalInRange(l.value)
              /\ r.op = NoOperand
              /\ r.e \in {"Immediate overflow", "Immediate is not a valid number"}
    [] l.form = "special" -> r = OperandOk(SpecialReg(l.text))
    [] OTHER -> r.op = NoOperand /\ r.e \in {"invalid operand"}

\* C25: OlaOperand::from_str maps rN (N in 0..8) to RegisterOperand, [rN,k]
\* with a decimal k to RegisterWithOffset with offset k mod p, a decimal
\* literal to ImmediateOperand and a special-register name to SpecialReg, and
\* returns an error for every other string.
C25_OperandFromStr ==
  codec.stage = "operand" => ParsedAsWritten(codec.literal, codec.operand)

\* The rows of the cpu trace that executed the opcode.
RowsOf(opc) == {i \in DOMAIN trace.exec : trace.exec[i].opcode = opc}

\* The iterative Fibonacci program ends Ok with 34 in R2.
FibonacciEndsWith34 ==
  (RunsFibonacci /\ Terminal) => (Completed /\ to_canonical_u64(registers[2]) = 34)

\* The end of the iterative Fibonacci program: eight times around the loop,
\* the counter at 8, the 9th Fibonacci number in R1 and the 10th in R2.
FibonacciEnd ==
  (RunsFibonacci /\ Terminal) =>
    /\ Completed
    /\ Cardinality(RowsOf("jmp")) = 8
    /\ Cardinality(RowsOf("cjmp")) = 9
    /\ to_canonical_u64(registers[3]) = 8
    /\ to_canonical_u64(registers[1]) = 34
    /\ to_canonical_u64(registers[2]) = 55

\* C26: the iterative Fibonacci program (r0 = 8, r1 = r2 = 1, counter r3)
\* terminates: Process::execute reaches END after exactly 8 loop iterations
\* and returns Ok; the run leaves 34 in R1 and 55 in R2.
C26_FibonacciTerminates ==
  /\ RunsFibonacci ~> Terminal
  /\ []FibonacciEnd

C26_Witness ==
  /\ RunsFibonacci
  /\ Completed
  /\ Cardinality(RowsOf("jmp")) = 8
  /\ Cardinality(RowsOf("end")) = 1

IsStorageStep(row) == row.opcode \in {"sstore", "sload"}

\* The executed SSTOREs and SLOADs, in execution order: each leaves one row
\* with its clk, opcode and tree key in the poseidon trace.
StorageSteps == SelectSeq(trace.builtin_posiedon, IsStorageStep)

LogKindOf(opcode) == IF opcode = "sstore" THEN "write" ELSE "read"

\* The log has one entry per executed SSTORE or SLOAD, in execution order.
LogOfExecution(log) ==
  /\ Len(log) = Len(StorageSteps)
  /\ \A i \in DOMAIN log :
       /\ log[i].kind = LogKindOf(StorageSteps[i].opcode)
       /\ log[i].key = StorageSteps[i].output

InLoop == status \in {"decode", "running"}

\* process_block is called when the loop has ended, for the first time, with
\* the log of the execution.
ProcessBlockCall ==
  process_block_calls' # process_block_calls =>
    /\ status = "loop_done"
    /\ process_block_calls = <<>>
    /\ process_block_calls' = <<storage_log>>
    /\ LogOfExecution(storage_log)

ProcessBlockCalls ==
  /\ InLoop => process_block_calls = <<>>
  /\ status = "fault" => process_block_calls = <<>>
  /\ Completed => Len(process_block_calls) = 1 /\ LogOfExecution(process_block_calls[1])

\* C27: within one Process::execute the account tree's process_block is
\* invoked exactly once, after the instruction loop has ended, with a log
\* holding one entry per executed SSTORE or SLOAD in execution order; it is
\* never invoked during the loop and never when execution faults.
C27_ProcessBlockOnceAfterLoop == [][ProcessBlockCall]_vars /\ []ProcessBlockCalls

C27_Witness ==
  /\ Completed
  /\ Len(process_block_calls) = 1
  /\ Len(process_block_calls[1]) = 4
  /\ \E i \in DOMAIN StorageSteps : StorageSteps[i].opcode = "sload"

C27_FaultWitness == status = "fault" /\ Len(StorageSteps) = 2 /\ process_block_calls = <<>>

\* The field result of an arithmetic opcode.
FieldResult(opcode, a, b) ==
  CASE opcode = "add" -> F_add(a, b)
    [] opcode = "mul" -> F_mul(a, b)
    [] opcode = "sub" -> F_sub(a, b)

\* A step on one of the opcodes stores the field result in dst and advances
\* the pc by the length of the instruction.
ArithmeticStep(opcodes) ==
  (Running /\ Cur.opcode \in opcodes /\ Op1SelOk(Cur.ops[3])) =>
    /\ status' \in {"running", "loop_done"}
    /\ registers' = [registers EXCEPT ![get_reg_index(Cur.ops[1])] =
                       FieldResult(Cur.opcode, registers[get_reg_index(Cur.ops[2])],
                                   get_index_value(Cur.ops[3]))]
    /\ pc' = pc + Cur.step

AddMulFieldArithmetic == [][ArithmeticStep({"add", "mul"})]_vars

\* C28: Process::execute executes sub dst op0 op1 as field arithmetic: it
\* stores (op0 - op1) mod p in dst and advances the pc by the instruction
\* length, as add and mul do with their results.
C28_SubIsFieldArithmetic == [][ArithmeticStep({"sub"})]_vars

\* The memory table that gen_memory_table makes of the memory at the end of
\* the loop.
MemoryTable == gen_memory_table(memory)

\* Row i continues the address of the row before it: its clk is not earlier
\* and diff_clk is the difference of the two.
SameAddrDiffs(rows, i) ==
  /\ rows[i].clk >= rows[i - 1].clk
  /\ rows[i].diff_clk = rows[i].clk - rows[i - 1].clk
  /\ rows[i].diff_addr = 0

\* Row i opens a new address group: its address is not lower and diff_addr is
\* the difference of the two.
NewAddrDiffs(rows, i) ==
  /\ rows[i].addr >= rows[i - 1].addr
  /\ rows[i].diff_addr = rows[i].addr - rows[i - 1].addr
  /\ rows[i].diff_clk = 0

DiffsNeverUnderflow(rows) ==
  \A i \in 2 .. Len(rows) :
    IF rows[i].addr = rows[i - 1].addr THEN SameAddrDiffs(rows, i) ELSE NewAddrDiffs(rows, i)

Log2Leaves == log2_strict(Len(codec.leaves)).v

\* MerkleTree::new panics exactly when cap_height > log2(n).
NewPanicsOnTooBigCap ==
  codec.stage \in {"tree", "proof", "verified"} =>
    (codec.tree.halt # "none" <=> codec.cap_height > Log2Leaves)

\* Hashing leaf i up through the siblings of prove(i) yields the cap entry of
\* its subtree.
ProofVerifies ==
  codec.stage = "verified" =>
    /\ codec.verified
    /\ Len(codec.siblings) = Log2Leaves - codec.cap_height
    /\ HashUp(hash_or_noop(codec.leaves[codec.leaf_index + 1]), codec.leaf_index,
              codec.siblings).digest
         = codec.tree.cap[ShiftRight(codec.leaf_index, Log2Leaves - codec.cap_height) + 1]

\* C30: for every list of leaves whose length n is a power of two, every leaf
\* width and every cap_height <= log2(n), MerkleTree::new builds a tree in
\* which prove(i) verifies every leaf i against the cap: hashing the leaf up
\* through the returned siblings yields cap[i >> (log2(n) - cap_height)];
\* MerkleTree::new panics when cap_height > log2(n).
C30_MerkleProofsVerify == NewPanicsOnTooBigCap /\ ProofVerifies

\* The trees whose leaf width, shifted by cap_height, is what the number of
\* leaves shifts to; with a full cap, in a build without debug assertions.
WidthSplitsAsLeafCount ==
  IF Len(codec.leaves) = Pow2(codec.cap_height) THEN ~codec.debug_assertions
  ELSE ShiftRight(Len(codec.leaves[1]), codec.cap_height)
         = ShiftRight(Len(codec.leaves), codec.cap_height)

\* The claim holds for the trees whose width splits as the leaf count does.
MerkleProofsVerifyWhenWidthFits ==
  (WidthSplitsAsLeafCount \/ codec.cap_height > Log2Leaves) => C30_MerkleProofsVerify

\* Every tree MerkleTree::new builds is the tree the split by leaf count
\* gives, and it builds none where that split does and the width differs.
NewBuildsTreeByLeafCount ==
  codec.stage \in {"tree", "proof", "verified"} /\ codec.tree.halt = "none" =>
    codec.tree = MerkleTree_new_by_leaf_count(codec.leaves, codec.cap_height,
                                              codec.debug_assertions)

\* The address an MLOAD or MSTORE of the runner works on: anchor + offset.
RunnerMemAddr(c, i) ==
  to_canonical_u64(F_add(c.registers[i.op1.r], i.op1.off))

\* The previous run_one_step executed MSTORE (its write row is the one it
\* returned) and the next instruction is an MLOAD from the same address.
MloadAfterMstore ==
  /\ RunnerAt("mload")
  /\ runner.result = "ok"
  /\ Len(runner.rows) = 1
  /\ runner.rows[1].opcode = "mstore"
  /\ RunnerCur.op1.k = "regoff"
  /\ runner.rows[1].addr = RunnerMemAddr(runner.context, RunnerCur)

MloadReturnsStored ==
  MloadAfterMstore =>
    /\ runner'.result = "ok"
    /\ runner'.context.registers[RunnerCur.dst.r] = runner.rows[1].value

\* C31: after run_one_step has executed MSTORE of v to address a, a
\* run_one_step executing MLOAD from a succeeds and sets the MLOAD's
\* destination register to v.
C31_RunnerMloadReadsMstore == [][MloadReturnsStored]_vars

\* A loop iteration of execute at a pc that hosts a prophet, completed: the
\* step's CPU row has been appended.
HostedStepCompleted ==
  /\ Running
  /\ pc \in DOMAIN prophets
  /\ status' \in {"running", "loop_done"}
  /\ Len(trace'.exec) = Len(trace.exec) + 1

\* The number of values a prophet reads, all of them from registers.
InputCount(p) == Len(InputFlags(p.inputs))

RegisterInputsOnly(p) ==
  /\ InputCount(p) <= PROPHET_INPUT_REG_LEN
  /\ \A n \in DOMAIN p.inputs : ~p.inputs[n].is_ref

\* What the interpreter returns on the registers as the step leaves them.
OutputOnPostRegisters(p) ==
  InterpreterRun(p, [n \in 1 .. InputCount(p) |->
                       registers'[PROPHET_INPUT_REG_START_INDEX + n - 1]]).values

\* The prophet of the step wrote its values once: one write-once cell per
\* value from the old psp on, psp past them and hp the last value.
ProphetWroteOnce(p) ==
  /\ psp' = F_add(psp, p.nout)
  /\ hp' = p.new_hp
  /\ \A n \in 1 .. p.nout :
       /\ F_add(psp, n - 1) \in DOMAIN memory'
       /\ Len(memory'[F_add(psp, n - 1)]) = 1
       /\ RegisterInputsOnly(p) =>
            memory'[F_add(psp, n - 1)][1].value = OutputOnPostRegisters(p)[n]

\* The CPU row of the step records clk, pc and the registers from before it.
RowRecordsBefore ==
  /\ trace'.exec[Len(trace'.exec)].pc = pc
  /\ trace'.exec[Len(trace'.exec)].clk = clk
  /\ trace'.exec[Len(trace'.exec)].registers = registers

HostedStepOutcome ==
  HostedStepCompleted =>
    /\ RowRecordsBefore
    /\ prophets[pc].ret = "Multiple" => ProphetWroteOnce(prophets[pc])

\* The statement as written, END included among the host instructions.
ProphetRunsAtEveryHost == [][HostedStepOutcome]_vars

\* C32: a prophet hosted at pc h runs once each time an instruction other
\* than END at h is executed: it is the prophet keyed by the pc before the
\* instruction, its register inputs are the registers after the instruction,
\* its values go to psp before the CPU row is appended, and the row records
\* the registers and pc from before the instruction. END breaks out of the
\* loop before the prophet call.
C32_ProphetRunsAfterHost ==
  [][(HostedStepCompleted /\ Cur.opcode # "end") => HostedStepOutcome]_vars

\* A completed step whose host instruction changed a register the prophet
\* reads.
ProphetReadHostResult ==
  /\ trace.exec # <<>>
  /\ trace.exec[Len(trace.exec)].pc \in DOMAIN prophets
  /\ prophets[trace.exec[Len(trace.exec)].pc].ret = "Multiple"
  /\ trace.exec[Len(trace.exec)].registers[1] # registers[1]

C32_Witness ==
  /\ ProphetReadHostResult
  /\ psp = PSP_START_ADDR + 2
  /\ memory[PSP_START_ADDR][1].value = (U32_MAX + registers[1] + 1) % ORDER

RegisterOps == {"mov", "not", "add", "mul", "eq", "neq", "and", "or", "xor", "gte"}

\* A step of execute on one of the register-to-register opcodes at a pc that
\* hosts no prophet.
RegisterOpStep ==
  /\ Running
  /\ Cur.opcode \in RegisterOps
  /\ pc \notin DOMAIN prophets

\* The length of an instruction: 2 when one of its operands is an immediate.
LengthOf(ins) == IF \E n \in DOMAIN ins.ops : ins.ops[n].k = "imm" THEN 2 ELSE 1

RegisterOpFrame ==
  (RegisterOpStep /\ status' \in {"running", "loop_done"}) =>
    /\ \A r \in Regs \ {get_reg_index(Cur.ops[1])} : registers'[r] = registers[r]
    /\ Len(trace'.exec) = Len(trace.exec) + 1
    /\ pc' = pc + LengthOf(Cur)
    /\ psp' = psp
    /\ hp' = hp
    /\ memory' = memory
    /\ storage_log' = storage_log

\* C33: each of MOV, NOT, ADD, MUL, EQ, NEQ, AND, OR, XOR and GTE, with no
\* prophet attached, changes no general register but its dst, advances pc by
\* the instruction's length (1, or 2 with an immediate) and leaves psp, hp,
\* the memory map and the storage log unchanged.
C33_RegisterOpsFrame == [][RegisterOpFrame]_vars

\* Every one of the ten opcodes has been executed, at least one of them with
\* an immediate, and a dst register has changed.
C33_Witness ==
  /\ RegisterOps \subseteq {program[n].opcode : n \in DOMAIN program}
  /\ status = "ok"
  /\ \A op \in RegisterOps : \E n \in DOMAIN trace.exec : trace.exec[n].opcode = op
  /\ \E n \in DOMAIN trace.exec :
       /\ trace.exec[n].opcode = "mov"
       /\ instructions[trace.exec[n].pc].step = 2
  /\ registers[0] # 0

\* run_one_step returned Err(..): the Result is neither Ok nor a panic.
RunnerReturnsError ==
  /\ ~RunnerDead
  /\ runner'.result \notin {"ok", "none", "panic: unwrap on None", "panic: invert zero"}

ErrorLeavesContext ==
  RunnerReturnsError =>
    /\ runner'.context = runner.context
    /\ runner'.is_ended = runner.is_ended

\* C34: whenever run_one_step returns an error, the context is exactly as it
\* was before the call: clk, pc, registers, psp, memory and is_ended are
\* unchanged.
C34_RunnerErrorLeavesContext == [][ErrorLeavesContext]_vars

\* The errors raised before the arm changes the context leave it unchanged:
\* a missing instruction, a failed assert, a non-binary cjmp flag, a failed
\* range check, a failed memory read, an operand that cannot be evaluated.
ErrorBeforeUpdateLeavesContext ==
  (RunnerReturnsError
     /\ runner'.result \notin {"invalid dst operand", "ProphetReturnTypeError",
                               "InterpreterError"}) =>
    /\ runner'.context = runner.context
    /\ runner'.is_ended = runner.is_ended

EarlyErrorsLeaveContext == [][ErrorBeforeUpdateLeavesContext]_vars

\* A step of execute whose host instruction carries a prophet for which the
\* interpreter returns an error.
FailingProphetStep ==
  /\ Running
  /\ pc \in DOMAIN prophets
  /\ prophets[pc].ret = "Err"
  /\ Cur.opcode # "end"

ProphetErrorHalts ==
  FailingProphetStep =>
    /\ status' = "fault"
    /\ Len(trace'.exec) = Len(trace.exec)

\* C35: if the scripting interpreter returns an error for a prophet, execute
\* halts with a fault; it does not go on to the following instructions as if
\* the prophet had produced no output.
C35_ProphetErrorHalts == [][ProphetErrorHalts]_vars

\* What the code does instead: the step completes with psp, hp and the
\* memory of the host instruction, and the loop goes on.
ProphetErrorIgnored ==
  (FailingProphetStep /\ Cur.opcode = "mov") =>
    /\ status' = "running"
    /\ psp' = psp
    /\ hp' = hp
    /\ memory' = memory
    /\ Len(trace'.exec) = Len(trace.exec) + 1

ProphetErrorsAreIgnored == [][ProphetErrorIgnored]_vars

\* The addresses at which a step changed the memory map.
TouchedAddrs ==
  {a \in DOMAIN memory' : a \notin DOMAIN memory \/ memory'[a] # memory[a]}

FrameStep == Running /\ Cur.opcode \in {"call", "ret"}

\* The field values the CPU row records as op0 and aux0.
FrameAddrs == {F_sub(registers[FP_REG_INDEX], 1), F_sub(registers[FP_REG_INDEX], 2)}

\* A call or ret touches memory at the field values fp - 1 and fp - 2 only,
\* never fails on the subtraction, and completes when the cells it reads at
\* those addresses have been written.
FrameAddressesAreFieldValues ==
  FrameStep =>
    /\ TouchedAddrs \subseteq FrameAddrs
    /\ fault' # "panic: arithmetic overflow"
    /\ (Cur.opcode = "ret" /\ FrameAddrs \subseteq DOMAIN memory) =>
         /\ status' \in {"running", "loop_done"}
         /\ TouchedAddrs = FrameAddrs

\* C36: for CALL and RET the memory addresses written and read equal the
\* field values fp - 1 and fp - 2 recorded as op0 and aux0, for every
\* canonical frame pointer, fp = 0 and fp = 1 included.
C36_FrameAddressesMatchRow == [][FrameAddressesAreFieldValues]_vars

\* From fp = 2 on the u64 and the field subtraction agree.
FrameAddressesFromTwo ==
  [][registers[FP_REG_INDEX] >= 2 => FrameAddressesAreFieldValues]_vars

\* The decode pass went over the whole program: no panic, every line pushed
\* to raw_binary_instructions once and in order, and an instruction recorded
\* at start addresses inside the program only.
DecodeVisitsEveryLine ==
  status = "decode" =>
    /\ status' = "running"
    /\ trace'.raw_binary_instructions = program
    /\ DOMAIN instructions' \subseteq 0 .. (Len(program) - 1)

\* C37: the decode pass at the start of execute visits every line of the
\* program exactly once, without indexing outside the instruction list and
\* without arithmetic underflow, for every program of length >= 1, the
\* single instruction end included; raw_binary_instructions then has the
\* length of the program.
C37_DecodeVisitsEveryLine == [][DecodeVisitsEveryLine]_vars

\* The pass is sound for every program of two lines or more.
DecodeVisitsEveryLineFromTwo ==
  [][Len(program) >= 2 => DecodeVisitsEveryLine]_vars

\* The distance from an address to the upper boundary of its region, the
\* regions being the address buckets [p - 2^32, p), [p - 2 * 2^32, p - 2^32)
\* and [p - 3 * 2^32, p - 2 * 2^32); 0 below them.
DistanceToRegionEnd(addr) ==
  IF addr >= ORDER - V_U32 THEN ORDER - addr
  ELSE IF addr >= ORDER - 2 * V_U32 THEN ORDER - V_U32 - addr
  ELSE IF addr >= ORDER - 3 * V_U32 THEN ORDER - 2 * V_U32 - addr
  ELSE 0

\* C38: every memory-trace row has as diff_addr_cond the distance from its
\* address to the upper boundary of its own write-once region (p - addr for
\* the prophet region, p - 2^32 - addr for the poseidon region,
\* p - 2 * 2^32 - addr for the ecdsa region) and 0 when it is a read-write
\* row.
C38_DiffAddrCondIsRegionDistance ==
  \A i \in DOMAIN trace.memory :
    trace.memory[i].diff_addr_cond = DistanceToRegionEnd(trace.memory[i].addr)

\* What holds of the rows: by the flags their cells were recorded with, a
\* prophet row has p - addr and a row without a region flag has 0.
DiffAddrCondByFlags ==
  \A i \in DOMAIN trace.memory :
    /\ trace.memory[i].region_prophet = 1 =>
         trace.memory[i].diff_addr_cond = ORDER - trace.memory[i].addr
    /\ ~IsWriteOnceCell(trace.memory[i]) => trace.memory[i].diff_addr_cond = 0

\* The printed token of an accepted operand parsed back to the operand.
TokenParsesBack == codec.reparsed = OperandOk(codec.operand.op)

\* C39: for every operand o that OlaOperand::from_str accepts,
\* from_str(o.get_asm_token()) = Ok(o), for register, register-with-offset,
\* immediate and special-register operands alike.
C39_AsmTokenRoundTrip == codec.stage = "reparsed" => TokenParsesBack

\* Registers and special registers print as the names from_str reads.
NamesRoundTrip ==
  (codec.stage = "reparsed" /\ codec.operand.op.k \in {"reg", "special"}) => TokenParsesBack

\* An immediate and a register with offset print their value in hexadecimal,
\* which from_str does not read as an operand.
HexTokensRejected ==
  (codec.stage = "reparsed" /\ codec.operand.op.k \in {"imm", "regoff"}) =>
    codec.reparsed = OperandErr("invalid operand")

\* The rows of a trace that satisfies the TapeStark constraints.
SatisfyingTrace == IF codec.stage = "satisfied" THEN codec.rows ELSE <<>>

\* Row i is the first row of its transaction.
OpensTx(rows, i) == i = 1 \/ rows[i - 1].tx_idx # rows[i].tx_idx

InitSegIsBinary(rows) == \A i \in DOMAIN rows : rows[i].is_init_seg \in {0, 1}

\* Inside a transaction is_init_seg never steps from `from` to the other
\* value.
NoStepFrom(rows, from) ==
  \A i \in 2 .. Len(rows) :
    (~OpensTx(rows, i) /\ rows[i - 1].is_init_seg = from) => rows[i].is_init_seg = from

====
